---- MODULE Spec2Model ----
(***************************************************************************)
(* A model of torch-kalman's state-belief engine:                          *)
(*   src/torch_kalman/state_belief/base.py              (StateBelief)      *)
(*   src/torch_kalman/state_belief/families/censored_gaussian/             *)
(*       censored_gaussian.py                           (CensoredGaussian) *)
(*                                                                         *)
(* A belief holds, per group, a state mean and a state covariance.  The    *)
(* model uses a one-dimensional state (means[g] and covs[g] are scalars,   *)
(* F[g] and Q[g] are 1x1) and NumMeasures measurement dimensions, so H[g]  *)
(* is a column (one entry per measure) and R[g] a NumMeasures-square       *)
(* matrix.  Tensor entries are IEEE-like extended rationals.               *)
(*                                                                         *)
(* Three specifications share the state: Spec, a run of calls on one       *)
(* belief; SpecCall, one call with wide inputs on a prepared belief; and   *)
(* SpecSim (FairSpecSim with fairness), one simulate_trajectories call     *)
(* with the loop of _realize taken step by step.                           *)
(***************************************************************************)
EXTENDS Integers, Sequences, FiniteSets, TLC

(***************************************************************************)
(* Tensor entries.  <<n, d>> with d > 0 is the rational n/d in lowest      *)
(* terms; <<0, 0>> is not-a-number, <<1, 0>> is +infinity, <<-1, 0>> is    *)
(* -infinity.  Arithmetic follows the IEEE rules the tensor library uses.  *)
(***************************************************************************)
NaN == <<0, 0>>
PosInf == <<1, 0>>
NegInf == <<-1, 0>>

Abs(n) == IF n < 0 THEN -n ELSE n

RECURSIVE GCD(_, _)
GCD(a, b) == IF b = 0 THEN a ELSE GCD(b, a % b)

Rat(n, d) ==
  LET g == GCD(Abs(n), Abs(d))
      s == IF d < 0 THEN -1 ELSE 1
  IN  <<(s * n) \div g, (s * d) \div g>>

Num(n) == <<n, 1>>

IsNaN(x) == x = NaN
IsInf(x) == x[2] = 0 /\ x[1] # 0
IsFinite(x) == x[2] > 0
Sign(x) == IF x[1] > 0 THEN 1 ELSE IF x[1] < 0 THEN -1 ELSE 0

Neg(x) == <<-x[1], x[2]>>

Add(x, y) ==
  IF IsNaN(x) \/ IsNaN(y) THEN NaN
  ELSE IF IsInf(x) THEN (IF IsInf(y) /\ y # x THEN NaN ELSE x)
  ELSE IF IsInf(y) THEN y
  ELSE LET g == GCD(x[2], y[2])
           l == (x[2] \div g) * y[2]
       IN  Rat(x[1] * (l \div x[2]) + y[1] * (l \div y[2]), l)

Sub(x, y) == Add(x, Neg(y))

Mul(x, y) ==
  IF IsNaN(x) \/ IsNaN(y) THEN NaN
  ELSE IF IsInf(x) \/ IsInf(y)
       THEN (IF Sign(x) * Sign(y) = 0 THEN NaN ELSE <<Sign(x) * Sign(y), 0>>)
  ELSE LET g1 == GCD(Abs(x[1]), y[2])
           g2 == GCD(Abs(y[1]), x[2])
       IN  Rat((x[1] \div g1) * (y[1] \div g2), (x[2] \div g2) * (y[2] \div g1))

\* 1/x: 1/0 is +infinity, 1/infinity is 0.
Recip(x) ==
  IF IsNaN(x) THEN NaN
  ELSE IF IsInf(x) THEN Num(0)
  ELSE IF x[1] = 0 THEN PosInf
  ELSE Rat(x[2], x[1])

Div(x, y) == Mul(x, Recip(y))

\* x < y on finite entries.
Less(x, y) == x[1] * y[2] < y[1] * x[2]

\* Sum of the entries f[1] .. f[k].
RECURSIVE SumTo(_, _)
SumTo(f, k) == IF k = 0 THEN Num(0) ELSE Add(SumTo(f, k - 1), f[k])

\* The tuple <<f[1], ..., f[k]>>, every entry evaluated once.
RECURSIVE Eager(_, _)
Eager(f, k) == IF k = 0 THEN <<>> ELSE Append(Eager(f, k - 1), f[k])

RemoveAt(s, j) == SubSeq(s, 1, j - 1) \o SubSeq(s, j + 1, Len(s))

\* The ascending sequence of the elements of a finite set of integers.
RECURSIVE SortedSeq(_)
SortedSeq(S) ==
  IF S = {} THEN <<>>
  ELSE LET m == CHOOSE x \in S : \A y \in S : x <= y
       IN  <<m>> \o SortedSeq(S \ {m})

SeqSet(s) == {s[i] : i \in 1..Len(s)}

\* Determinant of the sub-matrix of A on the given rows and columns
\* (expansion along the first row).
RECURSIVE Det(_, _, _)
Det(A, rows, cols) ==
  IF Len(rows) = 0 THEN Num(1)
  ELSE LET r == Head(rows)
           term(j) == Mul(Mul(Num(IF j % 2 = 1 THEN 1 ELSE -1), A[r][cols[j]]),
                          Det(A, Tail(rows), RemoveAt(cols, j)))
       IN  SumTo([j \in 1..Len(cols) |-> term(j)], Len(cols))

(***************************************************************************)
(* Sizes: groups and measures of the batch, timesteps of an obs tensor,    *)
(* predict/update calls of a run, timesteps of a simulation, attempts of   *)
(* a _realize.                                                             *)
(***************************************************************************)
NumGroups == 2
NumMeasures == 2
MaxTimes == 2
MaxCalls == 3
MaxSteps == 2
MaxNtry == 3
MaxLoop == 3
MaxDim == 2

Groups == 1..NumGroups
Measures == 1..NumMeasures
AllGroups == SortedSeq(Groups)
AllMeasures == SortedSeq(Measures)

Families == {"Gaussian", "CensoredGaussian"}

\* Optional values: None is <<>>, a present value x is <<x>>.
None == <<>>
Some(x) == <<x>>
IsNone(o) == o = <<>>
Get(o) == o[1]

(***************************************************************************)
(* torch.inverse on a k x k matrix (k = Len of the index sequence): raises *)
(* on an exactly singular matrix, propagates not-a-number otherwise.       *)
(***************************************************************************)
Idx(k) == Eager([i \in 1..k |-> i], k)

\* The inverse of A from its determinant d: adjugate over determinant.
Adjugate(A, k, d) ==
  [singular |-> d = Num(0),
   inv |-> Eager([i \in 1..k |-> Eager([j \in 1..k |->
             Mul(Mul(Num(IF (i + j) % 2 = 0 THEN 1 ELSE -1),
                     Det(A, RemoveAt(Idx(k), j), RemoveAt(Idx(k), i))),
                 Recip(d))], k)], k)]

\* [singular, inv]: whether the call raises, and the inverse otherwise.
Inverse(A, k) == Adjugate(A, k, Det(A, Idx(k), Idx(k)))

(***************************************************************************)
(* Tensors and belief objects.  A tensor is a value with the identity of   *)
(* its storage: "self" is storage owned by the receiver of the call being  *)
(* modelled, "arg" is storage passed in by the caller, "fresh" is storage  *)
(* allocated during the call.  An in-place write to "self" storage changes *)
(* the receiver.                                                           *)
(***************************************************************************)
Tn(st, v) == [st |-> st, v |-> v]

\* Tensor.clone()
Clone(x) == Tn("fresh", x.v)

OptVal(o) == IF IsNone(o) THEN None ELSE Some(Get(o).v)
OptTag(o) == IF IsNone(o) THEN "none" ELSE Get(o).st

\* The receiver of a call, built from the stored field values.
AsSelf(b) ==
  [family |-> b.family,
   means |-> Tn("self", b.means),
   covs |-> Tn("self", b.covs),
   last_measured |-> Tn("self", b.last_measured),
   H |-> IF IsNone(b.H) THEN None ELSE Some(Tn("self", Get(b.H))),
   R |-> IF IsNone(b.R) THEN None ELSE Some(Tn("self", Get(b.R)))]

\* The field values of a belief object.
Values(o) ==
  [family |-> o.family, means |-> o.means.v, covs |-> o.covs.v,
   last_measured |-> o.last_measured.v, H |-> OptVal(o.H), R |-> OptVal(o.R)]

\* The fields of a belief object whose storage is the receiver's.
SharedFields(o) ==
  {f \in {"means", "covs", "last_measured"} : o[f].st = "self"}
    \cup {f \in {"H", "R"} : OptTag(o[f]) = "self"}

\* StateBelief.__init__ (the shapes the model draws always pass _validate).
StateBelief(family, means, covs, last_measured) ==
  [family |-> family, means |-> means, covs |-> covs,
   last_measured |-> last_measured, H |-> None, R |-> None]

\* torch.zeros(num_groups, dtype=int): the default last_measured.
DefaultLastMeasured == Tn("fresh", [g \in Groups |-> 0])

\* compute_measurement without the guard against a second call.
compute_measurement_unguarded(self, H, R, overwrite) ==
  [err |-> "none", self |-> [self EXCEPT !.H = Some(H), !.R = Some(R)]]

\* StateBelief.compute_measurement: [err, self] with self the receiver after.
compute_measurement(self, H, R, overwrite) ==
  IF ~IsNone(self.H) /\ ~overwrite
  THEN [err |-> "RecomputeError", self |-> self]
  ELSE [err |-> "none", self |-> [self EXCEPT !.H = Some(H), !.R = Some(R)]]

\* The property H without the check that a measurement is attached.
PropH_unchecked(self) == [err |-> "none", val |-> self.H]

\* The properties StateBelief.H and StateBelief.R: [err, val].
PropH(self) ==
  IF IsNone(self.H) THEN [err |-> "UnmeasuredError", val |-> None]
  ELSE [err |-> "none", val |-> self.H]

PropR(self) ==
  IF IsNone(self.R) THEN [err |-> "UnmeasuredError", val |-> None]
  ELSE [err |-> "none", val |-> self.R]

\* StateBelief.copy: UnmeasuredError from either property is swallowed.
copy(self) ==
  LET new == StateBelief(self.family, Clone(self.means), Clone(self.covs),
                         Clone(self.last_measured))
      h == PropH(self)
      r == PropR(self)
  IN  IF h.err # "none" \/ r.err # "none" THEN new
      ELSE compute_measurement(new, Clone(Get(h.val)), Clone(Get(r.val)), FALSE).self

\* predict without the process noise Q.
predict_noiseless(self, F, Q) ==
  StateBelief(self.family,
              Tn("fresh", [g \in Groups |-> Mul(F[g], self.means.v[g])]),
              Tn("fresh", [g \in Groups |-> Mul(Mul(F[g], self.covs.v[g]), F[g])]),
              Tn("fresh", [g \in Groups |-> self.last_measured.v[g] + 1]))

\* predict handing the receiver's measurement on to the belief it returns.
predict_measured(self, F, Q) ==
  [predict_noiseless(self, F, Q) EXCEPT
     !.covs = Tn("fresh", [g \in Groups |-> Add(@.v[g], Q[g])]),
     !.H = self.H, !.R = self.R]

\* StateBelief.predict for a one-dimensional state: F[g] and Q[g] are 1x1.
predict(self, F, Q) ==
  LET means == [g \in Groups |-> Mul(F[g], self.means.v[g])]
      covs == [g \in Groups |-> Add(Mul(Mul(F[g], self.covs.v[g]), F[g]), Q[g])]
      last_measured == [g \in Groups |-> self.last_measured.v[g] + 1]
  IN  StateBelief(self.family, Tn("fresh", means), Tn("fresh", covs),
                  Tn("fresh", last_measured))

(***************************************************************************)
(* Observations.  obs[g][m] is the entry of group g, measure m at the      *)
(* selected timestep; a missing entry is NaN.                              *)
(***************************************************************************)
GroupAnyNan(obs, g) == \E m \in Measures : IsNaN(obs[g][m])
\* No group taken for missing in every measure.
GroupNeverAllNan(obs, g) == FALSE

GroupAllNan(obs, g) == \A m \in Measures : IsNaN(obs[g][m])
AnyNan(obs) == \E g \in Groups : GroupAnyNan(obs, g)
NeverInf(obs) == FALSE
AnyInf(obs) == \E g \in Groups, m \in Measures : IsInf(obs[g][m])

\* (~is_nan[i]).nonzero().tolist(): the non-missing measures of group i.
WhichValid(obs, i) == SortedSeq({m \in Measures : ~IsNaN(obs[i][m])})

\* The loop over nan_group_idx that fills the update_groups dict; acc keeps
\* the dict's insertion order.
RECURSIVE UpdateGroups(_, _, _)
UpdateGroups(obs, idxs, acc) ==
  IF idxs = <<>> THEN acc
  ELSE LET i == Head(idxs)
           wv == WhichValid(obs, i)
           hit == {n \in 1..Len(acc) : acc[n].which_valid = wv}
       IN  IF GroupAllNan(obs, i) THEN UpdateGroups(obs, Tail(idxs), acc)
           ELSE IF hit # {}
           THEN UpdateGroups(obs, Tail(idxs),
                  [acc EXCEPT ![CHOOSE n \in hit : TRUE].group_idx = Append(@, i)])
           ELSE UpdateGroups(obs, Tail(idxs),
                  Append(acc, [which_valid |-> wv, group_idx |-> <<i>>, sliced |-> FALSE]))

\* update_groups without the bucket of the groups that miss nothing.
BucketsOfNan(obs) ==
  UpdateGroups(obs, SortedSeq({g \in Groups : GroupAnyNan(obs, g)}), <<>>)

\* update_groups as iterated by the update loop: the buckets of the groups
\* with some missing measure, then one bucket (slice(None) over the
\* measures) of the groups with none.
Buckets(obs) ==
  LET nan_group_idx == SortedSeq({g \in Groups : GroupAnyNan(obs, g)})
      nonan_group_idx == SortedSeq({g \in Groups : ~GroupAnyNan(obs, g)})
  IN  UpdateGroups(obs, nan_group_idx, <<>>)
        \o (IF Len(nonan_group_idx) > 0
            THEN <<[which_valid |-> AllMeasures, group_idx |-> nonan_group_idx,
                    sliced |-> TRUE]>>
            ELSE <<>>)

(***************************************************************************)
(* Tobit censoring terms (torch_kalman...censored_gaussian.utils, not part *)
(* of the sources at hand).  The normal cdf is not rational: the mass      *)
(* beyond a finite bound is the fixed value TobitMass, the mass beyond an  *)
(* infinite bound is 0, and the density terms of the adjustment are left   *)
(* out, so that without censoring nothing is adjusted.                     *)
(***************************************************************************)
TobitMass == <<1, 4>>

tobit_prob_lo(lower) ==
  IF lower = NegInf THEN Num(0) ELSE IF lower = PosInf THEN Num(1) ELSE TobitMass

tobit_prob_up(upper) ==
  IF upper = PosInf THEN Num(0) ELSE IF upper = NegInf THEN Num(1) ELSE TobitMass

tobit_adjustment_mean(mean, lower, upper) ==
  LET plo == tobit_prob_lo(lower)
      pup == tobit_prob_up(upper)
      part(p, b) == IF p = Num(0) THEN Num(0) ELSE Mul(p, b)
  IN  Add(Add(Mul(Sub(Sub(Num(1), pup), plo), mean), part(plo, lower)), part(pup, upper))

(***************************************************************************)
(* The update algebra of one group over its k valid measures.  H, obs,     *)
(* prob_obs are indexed 1..k, R is k x k, the state is one-dimensional.    *)
(***************************************************************************)
\* state_uncertainty.matmul(system_uncertainty_inv)
Gain(state_uncertainty, system_uncertainty_inv, k) ==
  [singular |-> system_uncertainty_inv.singular,
   K |-> Eager([j \in 1..k |->
            SumTo([i \in 1..k |->
                     Mul(state_uncertainty[i], system_uncertainty_inv.inv[i][j])], k)], k)]

\* CensoredGaussian.kalman_gain: [singular, K].
kalman_gain(covariance, H, R_adjusted, prob_obs, k) ==
  LET state_uncertainty == Eager([j \in 1..k |-> Mul(Mul(covariance, H[j]), prob_obs[j])], k)
      system_uncertainty ==
        Eager([i \in 1..k |-> Eager([j \in 1..k |->
           Add(Mul(Mul(Mul(Mul(prob_obs[i], H[i]), covariance), H[j]), prob_obs[j]),
               R_adjusted[i][j])], k)], k)
  IN  Gain(state_uncertainty, Inverse(system_uncertainty, k), k)

\* CensoredGaussian.mean_update
mean_update(mean, K, residuals, k) ==
  Add(mean, SumTo([j \in 1..k |-> Mul(K[j], residuals[j])], k))

\* The covariance left as it was.
covariance_kept(covariance, H, K, prob_obs, k) == covariance

\* CensoredGaussian.covariance_update
covariance_update(covariance, H, K, prob_obs, k) ==
  Mul(Sub(Num(1), SumTo([j \in 1..k |-> Mul(Mul(K[j], prob_obs[j]), H[j])], k)), covariance)

\* means_new and covs_new of one group from its Kalman gain.
Updated(mean, cov, H, prob_obs, residuals, gain, k) ==
  [singular |-> gain.singular,
   mean |-> mean_update(mean, gain.K, residuals, k),
   cov |-> covariance_update(cov, H, gain.K, prob_obs, k)]

\* The body of CensoredGaussian._update_group after the checks, for group g:
\* lower and upper are the bounds of its valid measures.
CensoredGroup(self, obs, g, which_valid, lower, upper) ==
  LET k == Len(which_valid)
      mean == self.means.v[g]
      cov == self.covs.v[g]
      H == Eager([i \in 1..k |-> Get(self.H).v[g][which_valid[i]]], k)
      R == [i \in 1..k |-> [j \in 1..k |-> Get(self.R).v[g][which_valid[i]][which_valid[j]]]]
      prob_obs == Eager([i \in 1..k |->
                     Sub(Sub(Num(1), tobit_prob_up(upper[i])), tobit_prob_lo(lower[i]))], k)
      residuals == [j \in 1..k |->
                      Sub(obs[g][which_valid[j]],
                          tobit_adjustment_mean(Mul(H[j], mean), lower[j], upper[j]))]
  IN  Updated(mean, cov, H, prob_obs, residuals, kalman_gain(cov, H, R, prob_obs, k), k)

\* The bounds of group g over its leading measures, not its valid ones.
BoundRowLeading(bound, dflt, g, which_valid) ==
  [i \in 1..Len(which_valid) |-> IF IsNone(bound) THEN dflt ELSE Get(bound)[g][i]]

\* The bounds of group g over the valid measures; an omitted tensor is
\* torch.full_like(obs, dflt).
BoundRow(bound, dflt, g, which_valid) ==
  [i \in 1..Len(which_valid) |->
     IF IsNone(bound) THEN dflt ELSE Get(bound)[g][which_valid[i]]]

\* The checks of the bounds without the one for a degenerate interval.
BoundsCheckNans(lower, upper, group_idx, which_valid) ==
  LET k == Len(which_valid)
      gs == SeqSet(group_idx)
  IN  IF ~IsNone(lower)
         /\ \E g \in gs, i \in 1..k : IsNaN(BoundRow(lower, NegInf, g, which_valid)[i])
      THEN "NanLower"
      ELSE IF ~IsNone(upper)
              /\ \E g \in gs, i \in 1..k : IsNaN(BoundRow(upper, PosInf, g, which_valid)[i])
           THEN "NanUpper"
      ELSE "none"

\* The checks CensoredGaussian._update_group makes on the bounds of the
\* groups of group_idx over the valid measures: the error raised, or "none".
BoundsCheck(lower, upper, group_idx, which_valid) ==
  LET k == Len(which_valid)
      gs == SeqSet(group_idx)
      lo(g) == BoundRow(lower, NegInf, g, which_valid)
      up(g) == BoundRow(upper, PosInf, g, which_valid)
  IN  IF ~IsNone(lower) /\ \E g \in gs, i \in 1..k : IsNaN(lo(g)[i]) THEN "NanLower"
      ELSE IF ~IsNone(upper) /\ \E g \in gs, i \in 1..k : IsNaN(up(g)[i]) THEN "NanUpper"
      ELSE IF \E g \in gs, i \in 1..k : ~IsNaN(lo(g)[i]) /\ lo(g)[i] = up(g)[i]
           THEN "LowerEqUpper"
      ELSE "none"

\* The outcome of a failed _update_group.
GroupFail(e) == [err |-> e, means |-> <<>>, covs |-> <<>>]

\* A step that raises e, or goes on with the rest when e is "none".
OrElse(e, rest) == IF e # "none" THEN GroupFail(e) ELSE rest

\* What _update_group returns from the results of its groups.
Collected(res, n) ==
  IF \E x \in 1..n : res[x].singular THEN GroupFail("SingularError")
  ELSE [err |-> "none", means |-> [x \in 1..n |-> res[x].mean],
        covs |-> [x \in 1..n |-> res[x].cov]]

\* CensoredGaussian._update_group: [err, means, covs], the latter two the
\* rows of the groups of group_idx, in its order.
CensoredUpdateGroup(self, obs, group_idx, which_valid, lower, upper) ==
  LET n == Len(group_idx)
      res == Eager([x \in 1..n |->
                CensoredGroup(self, obs, group_idx[x], which_valid,
                              BoundRow(lower, NegInf, group_idx[x], which_valid),
                              BoundRow(upper, PosInf, group_idx[x], which_valid))], n)
  IN  OrElse(BoundsCheck(lower, upper, group_idx, which_valid),
        OrElse(PropR(self).err,
          OrElse(PropH(self).err, Collected(res, n))))

\* Gaussian._update_group (families/gaussian.py is not part of the sources at
\* hand): the Kalman update over the valid measures, as the specification
\* gives it: K = cov.Ht.(H.cov.Ht + R)^-1, mean' = mean + K.(obs - H.mean),
\* cov' = (I - K.H).cov.
GaussianUpdateGroup(self, obs, group_idx, which_valid) ==
  LET n == Len(group_idx)
      k == Len(which_valid)
      res == Eager([x \in 1..n |->
                CensoredGroup(self, obs, group_idx[x], which_valid,
                              [i \in 1..k |-> NegInf], [i \in 1..k |-> PosInf])], n)
  IN  OrElse(PropH(self).err, OrElse(PropR(self).err, Collected(res, n)))

\* self._update_group, dispatched on the family.
update_group(self, obs, group_idx, which_valid, lower, upper) ==
  IF self.family = "CensoredGaussian"
  THEN CensoredUpdateGroup(self, obs, group_idx, which_valid, lower, upper)
  ELSE GaussianUpdateGroup(self, obs, group_idx, which_valid)

\* tensor[group_idx] = rows: an in-place write of the rows of group_idx.
SetRows(x, group_idx, rows) ==
  Tn(x.st, Eager([g \in Groups |->
                    IF \E n \in 1..Len(group_idx) : group_idx[n] = g
                    THEN rows[CHOOSE n \in 1..Len(group_idx) : group_idx[n] = g]
                    ELSE x.v[g]], NumGroups))

\* The loop `for which_valid, group_idx in update_groups` of update, writing
\* into means_new and covs_new; an error of a bucket ends it.
RECURSIVE RunBuckets(_, _, _, _, _, _, _)
\* One pass of the loop, r being what _update_group returned or raised.
RunBucket(self, obs, lower, upper, buckets, means_new, covs_new, r) ==
  IF r.err # "none"
  THEN [err |-> r.err, means |-> means_new, covs |-> covs_new]
  ELSE RunBuckets(self, obs, lower, upper, Tail(buckets),
                  SetRows(means_new, Head(buckets).group_idx, r.means),
                  SetRows(covs_new, Head(buckets).group_idx, r.covs))

RunBuckets(self, obs, lower, upper, buckets, means_new, covs_new) ==
  IF buckets = <<>> THEN [err |-> "none", means |-> means_new, covs |-> covs_new]
  ELSE RunBucket(self, obs, lower, upper, buckets, means_new, covs_new,
                 update_group(self, obs, Head(buckets).group_idx, Head(buckets).which_valid,
                              lower, upper))

\* _update_last_measured without the reset of the measured groups.
update_last_measured_kept(self, obs) == Clone(self.last_measured)

\* StateBelief._update_last_measured and its CensoredGaussian override (the
\* same on the two-dimensional obs the update passes).
update_last_measured(self, obs) ==
  LET any_measured_group_idx == SortedSeq({g \in Groups : \E m \in Measures : ~IsNaN(obs[g][m])})
      last_measured == Clone(self.last_measured)
  IN  SetRows(last_measured, any_measured_group_idx,
              [n \in 1..Len(any_measured_group_idx) |-> 0])

\* The receiver after in-place writes to the tensors x (means), c (covs) and
\* l (last_measured) of a call.
Written(self, x, c, l) ==
  [self EXCEPT !.means = IF x.st = "self" THEN x ELSE @,
               !.covs = IF c.st = "self" THEN c ELSE @,
               !.last_measured = IF l.st = "self" THEN l ELSE @]

\* means_new started from zeros instead of the receiver's means.
MeansZeros(self) == Tn("fresh", [g \in Groups |-> Num(0)])

\* The means_new and covs_new tensors the bucket loop of update starts from.
MeansNew(self) == Clone(self.means)
\* covs_new taken to be the receiver's covs itself, not a clone.
CovsNewAliased(self) == self.covs

CovsNew(self) == Clone(self.covs)

\* What a call of update that raises e leaves: [err, returned, ret, self,
\* buckets], self being the receiver after.
Raise(e, after, buckets) ==
  [err |-> e, returned |-> FALSE, ret |-> after, self |-> after, buckets |-> buckets]

\* The new means and covariances of the path without missing entries.
Fresh(r) ==
  [err |-> r.err, means |-> Tn("fresh", Eager(r.means, Len(r.means))),
   covs |-> Tn("fresh", Eager(r.covs, Len(r.covs)))]

\* update after the groups are done with outcome r: the checks for an
\* infinite observation and a NaN mean, and the belief returned.
AfterGroups(self, obs, buckets, r, last_measured) ==
  IF r.err # "none"
  THEN Raise(r.err, Written(self, r.means, r.covs, self.last_measured), buckets)
  ELSE IF AnyInf(obs)
       THEN Raise("InfObs", Written(self, r.means, r.covs, self.last_measured), buckets)
  ELSE IF \E g \in Groups : IsNaN(r.means.v[g])
       THEN Raise("NanMean", Written(self, r.means, r.covs, self.last_measured), buckets)
  ELSE [err |-> "none", returned |-> TRUE,
        ret |-> StateBelief(self.family, r.means, r.covs, last_measured),
        self |-> Written(self, r.means, r.covs, last_measured),
        buckets |-> buckets]

\* StateBelief.update on the observation of one timestep (base.py 89-129):
\* [err, returned, ret, self, buckets].
UpdateStep(self, obs, lower, upper) ==
  IF ~AnyNan(obs)
  THEN AfterGroups(self, obs,
         <<[which_valid |-> AllMeasures, group_idx |-> AllGroups, sliced |-> TRUE]>>,
         Fresh(update_group(self, obs, AllGroups, AllMeasures, lower, upper)),
         update_last_measured(self, obs))
  ELSE AfterGroups(self, obs, Buckets(obs),
         RunBuckets(self, obs, lower, upper, Buckets(obs), MeansNew(self), CovsNew(self)),
         update_last_measured(self, obs))

\* The receiver itself, returned without a copy.
BeyondHorizonSelf(self) == self

\* What update returns when the time selector is past the data horizon.
BeyondHorizon(self) == copy(self)

\* StateBelief.update / CensoredGaussian.update with the keyword `time`:
\* ext is obs.shape[1]; obs, lower and upper are the slices at `time`, the
\* only part of the tensors the call reads.  time = None is a call without
\* the keyword, on a two-dimensional obs.
update(self, obs, ext, time, lower, upper) ==
  IF ~IsNone(time) /\ Get(time) >= ext
  THEN [err |-> "none", returned |-> TRUE, ret |-> BeyondHorizon(self), self |-> self,
        buckets |-> <<>>]
  ELSE UpdateStep(self, obs, lower, upper)

(***************************************************************************)
(* Inputs of the calls.                                                    *)
(***************************************************************************)
\* Design.F(t), Design.Q(t): one transition and process noise per group.
FSteady == [g \in Groups |-> Num(1)]
FGrowing == [g \in Groups |-> Num(g + 1)]
FBlownUp == [g \in Groups |-> IF g = NumGroups THEN NaN ELSE Num(1)]
FChoices == {FSteady, FGrowing, FBlownUp}

QChoices == {[g \in Groups |-> <<1, 10>>]}

\* Design.H(t), Design.R(t): a measurement column and noise matrix per group.
HRUnit ==
  [H |-> [g \in Groups |-> [m \in Measures |-> Num(1)]],
   R |-> [g \in Groups |-> [i \in Measures |-> [j \in Measures |->
            IF i = j THEN Num(1) ELSE Num(0)]]]]

HRChoices ==
  {HRUnit,
   [H |-> [g \in Groups |-> [m \in Measures |-> Num(m)]],
    R |-> [g \in Groups |-> [i \in Measures |-> [j \in Measures |->
             IF i = j THEN Num(2) ELSE Num(1)]]]]}

\* Observation slices: the first group and the other groups each observed
\* in all measures, in none, in the first only or in all but the first, with
\* the value 1; and the fully observed and the fully missing slice with one
\* infinite entry.
Patterns == {Measures, {}, {1}, Measures \ {1}}

ObsSlices ==
  {[g \in Groups |-> [m \in Measures |->
      IF m \in (IF g = 1 THEN P1 ELSE P2) THEN Num(1) ELSE NaN]] :
     P1 \in Patterns, P2 \in Patterns}
    \cup {[g \in Groups |-> [m \in Measures |->
             IF g = pg /\ m = 1 THEN PosInf ELSE base]] :
          pg \in Groups, base \in {NaN, Num(1)}}

\* The slices of a run of several steps: the groups of S observed (in full,
\* or in their first measure only), the others missing.
ObsOf(S, full) ==
  [g \in Groups |-> [m \in Measures |->
     IF g \in S /\ (full \/ m = 1) THEN Num(1) ELSE NaN]]

ObsRun == {ObsOf(Groups, TRUE), ObsOf({1}, FALSE), ObsOf({NumGroups}, TRUE), ObsOf({}, TRUE)}

\* Censoring bounds of a slice: per entry, a lower and an upper bound.
FreeLower == [g \in Groups |-> [m \in Measures |-> NegInf]]
FreeUpper == [g \in Groups |-> [m \in Measures |-> PosInf]]
NoBounds == [lower |-> None, upper |-> None]

\* Bounds with one entry set: a degenerate interval, a NaN lower bound, a
\* NaN upper bound, or a finite lower bound.
Positions == Groups \X {1, NumMeasures}
BoundKinds == {"degenerate", "nanlower", "nanupper", "censored"}

Fault(lower, upper, p, kind) ==
  [lower |-> CASE kind = "degenerate" -> [lower EXCEPT ![p[1]][p[2]] = Num(0)]
               [] kind = "nanlower" -> [lower EXCEPT ![p[1]][p[2]] = NaN]
               [] kind = "censored" -> [lower EXCEPT ![p[1]][p[2]] = Num(0)]
               [] OTHER -> lower,
   upper |-> CASE kind = "degenerate" -> [upper EXCEPT ![p[1]][p[2]] = Num(0)]
               [] kind = "nanupper" -> [upper EXCEPT ![p[1]][p[2]] = NaN]
               [] OTHER -> upper]

OneFault == {Fault(FreeLower, FreeUpper, p, kind) : p \in Positions, kind \in BoundKinds}

\* A degenerate interval at one entry and a NaN lower bound at another.
TwoFaults ==
  {Fault(Fault(FreeLower, FreeUpper, p, "degenerate").lower,
         Fault(FreeLower, FreeUpper, p, "degenerate").upper, q, "nanlower") :
     p \in Positions, q \in Positions} \ OneFault

BoundChoices ==
  {NoBounds}
    \cup {[lower |-> Some(b.lower), upper |-> Some(b.upper)] : b \in OneFault \cup TwoFaults}
    \cup {[lower |-> Some(Fault(FreeLower, FreeUpper, p, kind).lower), upper |-> None] :
            p \in Positions, kind \in {"nanlower", "censored"}}

\* What the tensors of a call past the data horizon hold in their last
\* timestep: a clean slice or one with an infinite entry, and no bounds,
\* a NaN lower bound or a degenerate interval.
ObsPast ==
  {ObsOf(Groups, TRUE),
   [g \in Groups |-> [m \in Measures |-> IF g = 1 /\ m = 1 THEN PosInf ELSE Num(1)]]}

BoundsPast ==
  {NoBounds}
    \cup {[lower |-> Some(Fault(FreeLower, FreeUpper, <<1, 1>>, kind).lower),
            upper |-> Some(Fault(FreeLower, FreeUpper, <<1, 1>>, kind).upper)] :
            kind \in {"nanlower", "degenerate"}}

(***************************************************************************)
(* The state: the belief the caller holds, the call in progress on it, and *)
(* history the properties are stated over.                                 *)
(***************************************************************************)
VARIABLES
  sb,        \* the field values of the belief object the caller holds
  call,      \* the call just made on sb: receiver before and after, arguments, outcome
  attached,  \* the H, R of the last successful compute_measurement on the current object
  since,     \* per group, predict steps since its last non-missing update
  ncalls,    \* number of predict and Kalman-update calls made
  sim,       \* the simulate_trajectories call in progress on sb
  over,      \* the driver loop on sb and the StateBeliefOverTime it builds
  shp        \* the shapes of the tensors of the beliefs constructed

vars == <<sb, call, attached, since, ncalls, sim, over, shp>>

NoArgs ==
  [F |-> None, Q |-> None, H |-> None, R |-> None, overwrite |-> FALSE,
   obs |-> None, ext |-> 0, time |-> None, lower |-> None, upper |-> None]

NoBelief ==
  [family |-> "none", means |-> <<>>, covs |-> <<>>, last_measured |-> <<>>,
   H |-> None, R |-> None]

\* No call in progress.
Idle ==
  [op |-> "idle", err |-> "none", pre |-> NoBelief, returned |-> FALSE, ret |-> NoBelief,
   shared |-> {}, same |-> FALSE, val |-> None, buckets |-> <<>>, args |-> NoArgs]

\* The record of a call that raised err.
Raised(op, pre, err, buckets, args) ==
  [op |-> op, err |-> err, pre |-> pre, returned |-> FALSE, ret |-> NoBelief,
   shared |-> {}, same |-> FALSE, val |-> None, buckets |-> buckets, args |-> args]

\* The record of a call that returned the belief object ret.
Returned(op, pre, ret, same, buckets, args) ==
  [op |-> op, err |-> "none", pre |-> pre, returned |-> TRUE, ret |-> Values(ret),
   shared |-> SharedFields(ret), same |-> same, val |-> None, buckets |-> buckets,
   args |-> args]

\* The record of a property read.
Read(op, pre, r) ==
  [op |-> op, err |-> r.err, pre |-> pre, returned |-> FALSE, ret |-> NoBelief,
   shared |-> {}, same |-> FALSE, val |-> OptVal(r.val), buckets |-> <<>>, args |-> NoArgs]

\* The belief the caller constructs: StateBelief(means, covs).
InitialBelief(family) ==
  Values(StateBelief(family, Tn("arg", [g \in Groups |-> Num(g - 1)]),
                     Tn("arg", [g \in Groups |-> Num(1)]), DefaultLastMeasured))

\* sb.predict(F, Q)
PredictCall(Fs, Qs) ==
  /\ call.op = "idle"
  /\ ncalls < MaxCalls
  /\ \E F \in Fs, Q \in Qs :
       call' = Returned("predict", sb, predict(AsSelf(sb), F, Q), FALSE, <<>>,
                        [NoArgs EXCEPT !.F = Some(F), !.Q = Some(Q)])
  /\ attached' = None
  /\ since' = [g \in Groups |-> since[g] + 1]
  /\ ncalls' = ncalls + 1
  /\ UNCHANGED <<sb, sim, over, shp>>

\* sb.compute_measurement(H, R, overwrite); it returns the receiver.
MeasureCall(HRs) ==
  /\ call.op = "idle"
  /\ \E hr \in HRs, overwrite \in BOOLEAN :
       LET r == compute_measurement(AsSelf(sb), Tn("arg", hr.H), Tn("arg", hr.R), overwrite)
           args == [NoArgs EXCEPT !.H = Some(hr.H), !.R = Some(hr.R),
                                  !.overwrite = overwrite]
       IN  /\ sb' = Values(r.self)
           /\ call' = IF r.err = "none"
                      THEN Returned("compute_measurement", sb, r.self, TRUE, <<>>, args)
                      ELSE Raised("compute_measurement", sb, r.err, <<>>, args)
           /\ attached' = IF r.err = "none" THEN Some([H |-> hr.H, R |-> hr.R])
                          ELSE attached
  /\ UNCHANGED <<since, ncalls, sim, over, shp>>

\* Reading sb.H.
ReadH ==
  /\ call.op = "idle"
  /\ call' = Read("H", sb, PropH(AsSelf(sb)))
  /\ UNCHANGED <<sb, attached, since, ncalls, sim, over, shp>>

\* Reading sb.R.
ReadR ==
  /\ call.op = "idle"
  /\ call' = Read("R", sb, PropR(AsSelf(sb)))
  /\ UNCHANGED <<sb, attached, since, ncalls, sim, over, shp>>

\* sb.copy()
CopyCall ==
  /\ call.op = "idle"
  /\ call' = Returned("copy", sb, copy(AsSelf(sb)), FALSE, <<>>, NoArgs)
  /\ UNCHANGED <<sb, attached, since, ncalls, sim, over, shp>>

\* The state after an update call with outcome r.
UpdateOutcome(obs, within, r, args) ==
  /\ within => ncalls < MaxCalls
  /\ sb' = Values(r.self)
  /\ call' = IF r.returned
             THEN Returned("update", sb, r.ret, FALSE, r.buckets, args)
             ELSE Raised("update", sb, r.err, r.buckets, args)
  /\ attached' = IF r.returned /\ within THEN None ELSE attached
  /\ since' = IF r.returned /\ within
              THEN [g \in Groups |-> IF GroupAllNan(obs, g) THEN since[g] ELSE 0]
              ELSE since
  /\ ncalls' = IF r.returned /\ within THEN ncalls + 1 ELSE ncalls

\* sb.update(obs, time=time[, lower=..., upper=...]) on an obs of ext
\* timesteps.  Within the horizon obs, lower and upper are the slices at
\* `time`; past it they are the last slices of the tensors.  The Gaussian
\* family takes no bounds.
UpdateCall(Obs, Bnds, Exts, Times) ==
  /\ call.op = "idle"
  /\ \E ext \in Exts, time \in Times :
     \E obs \in IF time < ext THEN Obs ELSE Obs \cap ObsPast :
     \E b \in IF sb.family = "Gaussian" THEN {NoBounds}
              ELSE IF time < ext THEN Bnds ELSE Bnds \cap BoundsPast :
       UpdateOutcome(obs, time < ext,
                     update(AsSelf(sb), obs, ext, Some(time), b.lower, b.upper),
                     [NoArgs EXCEPT !.obs = Some(obs), !.ext = ext, !.time = Some(time),
                                    !.lower = b.lower, !.upper = b.upper])
  /\ UNCHANGED <<sim, over, shp>>

\* The caller goes on with the belief the call returned, or with the
\* receiver when it raised or returned nothing new.
Adopt ==
  /\ call.op # "idle"
  /\ sb' = IF call.returned THEN call.ret ELSE sb
  /\ call' = Idle
  /\ UNCHANGED <<attached, since, ncalls, sim, over, shp>>

\* The belief the caller holds once the call in progress has returned.
Current == IF call.returned THEN call.ret ELSE sb

(***************************************************************************)
(* Simulation: StateBelief.simulate_trajectories and StateBelief._realize, *)
(* one step of their loops at a time.                                      *)
(***************************************************************************)
\* The 1e-09 that _realize adds to the diagonal of the covariances.
EpsDen == 1000000000
Eps == <<1, EpsDen>>

\* The diagonal left as it is.
InflateNot(covs) == covs

\* self.covs[:, range(rank), range(rank)] += 1e-09
Inflate(covs) == [g \in Groups |-> Add(covs[g], Eps)]

\* Gaussian.sample_transition (families/gaussian.py is not part of the
\* sources at hand): the decomposition of the covariance fails with a
\* RuntimeError unless every group's covariance is positive; the sample is
\* the mean plus noise, the decomposed covariance applied to eps.
sample_transition(means, covs, noise) ==
  IF \E g \in Groups : ~(IsFinite(covs[g]) /\ covs[g][1] > 0)
  THEN [err |-> "LapackError", means |-> None]
  ELSE [err |-> "none", means |-> Some([g \in Groups |-> Add(means[g], noise)])]

\* The noise of a sample.
Draws == {Num(0), Num(1)}

\* Design.Q(t) of a simulation: process noise in every group, or in all but
\* the first.
SimQChoices ==
  {[g \in Groups |-> <<1, 10>>],
   [g \in Groups |-> IF g = 1 THEN Num(0) ELSE <<1, 10>>]}

\* The covariances of the belief a simulation starts from: positive,
\* exactly singular in the first group, or negative there by the 1e-09 of
\* _realize or by 1.
SimCovChoices ==
  {[g \in Groups |-> IF g = 1 THEN c ELSE Num(1)] :
     c \in {Num(1), Num(0), Neg(Eps), Num(-1)}}

\* No simulation in progress.
NoSim ==
  [pc |-> "idle", num_timesteps |-> 0, ntry |-> 0, compute_measurements |-> FALSE,
   Q |-> None, t |-> 0, state |-> NoBelief, states |-> <<>>, i |-> 0,
   new_means |-> None, lapack |-> None, err |-> None,
   means0 |-> <<>>, covs0 |-> <<>>, log |-> <<>>,
   entry |-> NoBelief, initial |-> NoBelief, shared |-> {}, links |-> <<>>,
   snaps |-> <<>>]

\* Every field of a belief object, and the object itself.
Whole == {"object", "means", "covs", "last_measured", "H", "R"}

\* An in-place write to the covariance tensor of `state`: every appended
\* belief whose covs is that tensor changes with it.
SetCovs(s, covs) ==
  [s EXCEPT !.state.covs = covs,
            !.states = [k \in DOMAIN s.states |->
                          IF "covs" \in s.links[k]
                          THEN [s.states[k] EXCEPT !.covs = covs] ELSE s.states[k]]]

\* Binding attribute f of the object `state` to a new tensor v: every
\* appended belief that is that object changes with it, and no other
\* object's f is the tensor of state.f any more.
SetAttr(s, f, v) ==
  [s EXCEPT !.state[f] = v,
            !.states = [k \in DOMAIN s.states |->
                          IF "object" \in s.links[k]
                          THEN [s.states[k] EXCEPT ![f] = v] ELSE s.states[k]],
            !.links = [k \in DOMAIN s.links |->
                         IF "object" \in s.links[k] THEN s.links[k] ELSE s.links[k] \ {f}],
            !.shared = s.shared \ {f}]

\* The receiver of simulate_trajectories after an in-place write to the
\* covariance tensor of `state`.
Through(s, receiver, covs) ==
  IF "covs" \in s.shared THEN [receiver EXCEPT !.covs = covs] ELSE receiver

\* `state` given the values of new without becoming another object.
Overwritten(s, new) == [s EXCEPT !.state = Values(new)]

\* `state = new`, with new the object a call on the old `state` returned.
Rebound(s, new) ==
  [s EXCEPT !.state = Values(new),
            !.links = [k \in DOMAIN s.links |-> s.links[k] \cap SharedFields(new)],
            !.shared = s.shared \cap SharedFields(new)]

\* states.append(state)
Appended(s) ==
  [s EXCEPT !.states = Append(s.states, s.state), !.links = Append(s.links, Whole),
            !.snaps = Append(s.snaps, s.state)]

\* The end of _realize without zeroing the covariances.
realized_kept(s) == SetAttr(s, "means", Get(s.new_means))

\* The end of _realize: self.means = new_means; self.covs[:] = 0.0
realized(s) ==
  SetCovs(SetAttr(s, "means", Get(s.new_means)), [g \in Groups |-> Num(0)])

(***************************************************************************)
(* Shapes.  The shape of a tensor is the sequence of its sizes; a belief   *)
(* of shapes holds the shapes of the tensors of a StateBelief.             *)
(***************************************************************************)
Dims == 1..MaxDim

\* The shapes of rank r.
ShapesOf(r) == [1..r -> Dims]

NoShape == [family |-> "none", means |-> <<>>, covs |-> <<>>, last_measured |-> <<>>,
            num_groups |-> 0]

\* A construction or call that raised err, or returned the belief ret.
ShapeError(err) == [err |-> err, ret |-> NoShape]

\* _validate without the check of last_measured.
validate_groups_unchecked(means, covs, last_measured, num_groups) ==
  IF Len(means) # 2 THEN "ValueError"
  ELSE IF Len(covs) # 3 THEN "ValueError"
  ELSE IF covs[1] # means[1] THEN "ValueError"
  ELSE IF covs[2] # covs[3] THEN "ValueError"
  ELSE IF covs[2] # means[2] THEN "ValueError"
  ELSE "none"

\* _validate without the check that covs is square.
validate_square_unchecked(means, covs, last_measured, num_groups) ==
  IF Len(means) # 2 THEN "ValueError"
  ELSE IF Len(covs) # 3 THEN "ValueError"
  ELSE IF covs[1] # means[1] THEN "ValueError"
  ELSE IF covs[2] # means[2] THEN "ValueError"
  ELSE IF Len(last_measured) = 0 THEN "IndexError"
  ELSE IF last_measured[1] # num_groups \/ Len(last_measured) # 1 THEN "ValueError"
  ELSE "none"

\* StateBelief._validate: the error raised, or "none".  shape[0] of a
\* tensor of rank 0 is an IndexError.
validate(means, covs, last_measured, num_groups) ==
  IF Len(means) # 2 THEN "ValueError"
  ELSE IF Len(covs) # 3 THEN "ValueError"
  ELSE IF covs[1] # means[1] THEN "ValueError"
  ELSE IF covs[2] # covs[3] THEN "ValueError"
  ELSE IF covs[2] # means[2] THEN "ValueError"
  ELSE IF Len(last_measured) = 0 THEN "IndexError"
  ELSE IF last_measured[1] # num_groups \/ Len(last_measured) # 1 THEN "ValueError"
  ELSE "none"

\* StateBelief.__init__ on tensors of the given shapes, last_measured an
\* Option: `num_groups, state_size = means.shape` is a ValueError unless
\* means has rank 2.
Constructed(family, means, covs, last_measured) ==
  IF Len(means) # 2 THEN ShapeError("ValueError")
  ELSE LET num_groups == means[1]
           lm == IF IsNone(last_measured) THEN <<num_groups>> ELSE Get(last_measured)
           e == validate(means, covs, lm, num_groups)
       IN  IF e # "none" THEN ShapeError(e)
           ELSE [err |-> "none",
                 ret |-> [family |-> family, means |-> means, covs |-> covs,
                          last_measured |-> lm, num_groups |-> num_groups]]

\* The size two sizes broadcast to, 0 when they do not.
Broadcast(a, b) == IF a = b THEN a ELSE IF a = 1 THEN b ELSE IF b = 1 THEN a ELSE 0

\* x.matmul(y) of batched matrices: the shape, <<>> when it raises.
MatMul(x, y) ==
  IF x = <<>> \/ y = <<>> THEN <<>>
  ELSE IF x[3] # y[2] \/ Broadcast(x[1], y[1]) = 0 THEN <<>>
  ELSE <<Broadcast(x[1], y[1]), x[2], y[3]>>

\* x + y of batched matrices: the shape, <<>> when it raises.
Plus(x, y) ==
  IF x = <<>> \/ y = <<>> THEN <<>>
  ELSE IF \E i \in 1..3 : Broadcast(x[i], y[i]) = 0 THEN <<>>
  ELSE [i \in 1..3 |-> Broadcast(x[i], y[i])]

\* StateBelief.predict on shapes: F and Q are the shapes of the design's
\* matrices.
predict_shapes(self, F, Q) ==
  LET Ft == <<F[1], F[3], F[2]>>
      means == MatMul(F, <<self.means[1], self.means[2], 1>>)
      covs == Plus(MatMul(MatMul(F, self.covs), Ft), Q)
  IN  IF means = <<>> \/ covs = <<>> THEN ShapeError("RuntimeError")
      ELSE Constructed(self.family, <<means[1], means[2]>>, covs, Some(self.last_measured))

\* StateBelief.update on shapes: with some entry missing means_new and
\* covs_new are clones of the receiver's tensors written in place; with
\* none they are what _update_group returns, of any shapes.
update_shapes(self, any_nan, means_new, covs_new) ==
  IF any_nan
  THEN Constructed(self.family, self.means, self.covs, Some(self.last_measured))
  ELSE Constructed(self.family, means_new, covs_new, Some(self.last_measured))

\* StateBelief.copy on shapes.
copy_shapes(self) ==
  Constructed(self.family, self.means, self.covs, Some(self.last_measured))

\* No belief constructed.
NoShapes ==
  [pc |-> "idle", initial |-> NoShape, cur |-> NoShape, op |-> "none", err |-> "none",
   ret |-> NoShape, args |-> [means |-> <<>>, covs |-> <<>>, last_measured |-> None]]

(***************************************************************************)
(* StateBeliefOverTime, and the loop of the driver that collects its        *)
(* beliefs.                                                                *)
(***************************************************************************)
Max(S) == CHOOSE x \in S : \A y \in S : y <= x

\* The derived attributes of a StateBeliefOverTime.
Derived == {"_means", "_covs", "_H", "_R", "predictions", "prediction_uncertainty"}

\* No log_prob call made yet.
NoLogProb == [called |-> FALSE, obs |-> <<>>, err |-> "none", out |-> <<>>, buckets |-> <<>>]

\* No to_dataframe call made yet.
NoFrames ==
  [called |-> FALSE, dataset |-> "none", type |-> "none", group_colname |-> "none",
   time_colname |-> "none", err |-> "none", out |-> None]

\* No state_belief_for_time or last_update call made yet.
NoRestore == [op |-> "none", time_idx |-> <<>>, err |-> "none", ret |-> None]

\* No property read yet.
NoAccess == [field |-> "none", err |-> "none", val |-> None, before |-> None]

\* StateBeliefOverTime.__init__, the scan for last_update_idx: zeros, then
\* for every t in turn the groups with last_measured <= 1 are set to t.
\* Timesteps count from 0; state_beliefs[t + 1] is the belief of timestep t.
last_update_idx(state_beliefs) ==
  [g \in Groups |->
     LET hits == {t \in 0..(Len(state_beliefs) - 1) :
                    state_beliefs[t + 1].last_measured[g] <= 1}
     IN  IF hits = {} THEN 0 ELSE Max(hits)]

\* No driver loop begun, no StateBeliefOverTime built.
NoOver ==
  [pc |-> "idle", mode |-> "none", ext |-> 0, state_beliefs |-> <<>>, measured |-> <<>>,
   err |-> "none", family |-> "none", num_groups |-> 0, num_timesteps |-> 0,
   last_update_idx |-> <<>>,
   _means |-> None, _covs |-> None, _H |-> None, _R |-> None,
   predictions |-> None, prediction_uncertainty |-> None,
   computed |-> [f \in Derived |-> 0], res |-> NoAccess, lp |-> NoLogProb,
   df |-> NoFrames, at |-> NoRestore]

Times(o) == 1..Len(o.state_beliefs)

\* torch.stack([...], 1) of an attribute of the beliefs: group, then time.
Stacked(o, f) == [g \in Groups |-> [t \in Times(o) |-> o.state_beliefs[t][f][g]]]

StackedOpt(o, f) == [g \in Groups |-> [t \in Times(o) |-> Get(o.state_beliefs[t][f])[g]]]

\* The outcome of reading a property: the error or the value, and the
\* object after the read.
Got(o, val) == [err |-> "none", val |-> val, self |-> o]
Failed(o, err) == [err |-> err, val |-> None, self |-> o]

\* An attribute computed whether or not it is already there.
Recomputed(o, f, r) == r

\* `if self._f is None: <compute>; return self._f`, and the same for the
\* instance attribute a cached_property leaves behind: r is the outcome of
\* computing, used only when the attribute is empty.
Lazy(o, f, r) == IF IsNone(o[f]) THEN r ELSE Got(o, o[f])

\* StateBeliefOverTime._means_covs
means_covs(o) ==
  [o EXCEPT !._means = Some(Stacked(o, "means")), !._covs = Some(Stacked(o, "covs")),
            !.computed["_means"] = @ + 1, !.computed["_covs"] = @ + 1]

\* The properties means and covs.
OverMeans(o) == Lazy(o, "_means", Got(means_covs(o), means_covs(o)._means))
OverCovs(o) == Lazy(o, "_covs", Got(means_covs(o), means_covs(o)._covs))

\* self._f = torch.stack([sb.f for sb in self.state_beliefs], 1), for H
\* and R: the property of the first belief without a measurement raises.
StackProp(o, cache, f) ==
  IF \E t \in Times(o) : IsNone(o.state_beliefs[t][f])
  THEN Failed(o, "UnmeasuredError")
  ELSE Got([o EXCEPT ![cache] = Some(StackedOpt(o, f)), !.computed[cache] = @ + 1],
           Some(StackedOpt(o, f)))

\* The properties H and R.
OverH(o) == Lazy(o, "_H", StackProp(o, "_H", "H"))
OverR(o) == Lazy(o, "_R", StackProp(o, "_R", "R"))

\* self.H.matmul(self.means.unsqueeze(-1)).squeeze(-1)
Predictions(H, means) ==
  [g \in Groups |-> [t \in DOMAIN means[g] |-> [m \in Measures |->
     Mul(H[g][t][m], means[g][t])]]]

\* self.H.matmul(self.covs).matmul(Ht) + self.R
PredictionUncertainty(H, covs, R) ==
  [g \in Groups |-> [t \in DOMAIN covs[g] |-> [i \in Measures |-> [j \in Measures |->
     Add(Mul(Mul(H[g][t][i], covs[g][t]), H[g][t][j]), R[g][t][i][j])]]]]

\* The function under the cached_property predictions: H is read first,
\* then means; the value is left in the instance.
predictions_fn(o) ==
  LET h == OverH(o)
      mu == OverMeans(h.self)
      val == Some(Predictions(Get(h.val), Get(mu.val)))
  IN  IF h.err # "none" THEN Failed(h.self, h.err)
      ELSE Got([mu.self EXCEPT !.predictions = val, !.computed["predictions"] = @ + 1],
               val)

predictions(o) == Lazy(o, "predictions", predictions_fn(o))

\* The function under the cached_property prediction_uncertainty: H, then
\* covs, then R.
prediction_uncertainty_fn(o) ==
  LET h == OverH(o)
      c == OverCovs(h.self)
      r == OverR(c.self)
      val == Some(PredictionUncertainty(Get(h.val), Get(c.val), Get(r.val)))
  IN  IF h.err # "none" THEN Failed(h.self, h.err)
      ELSE IF r.err # "none" THEN Failed(r.self, r.err)
      ELSE Got([r.self EXCEPT !.prediction_uncertainty = val,
                              !.computed["prediction_uncertainty"] = @ + 1], val)

prediction_uncertainty(o) == Lazy(o, "prediction_uncertainty", prediction_uncertainty_fn(o))

(***************************************************************************)
(* StateBeliefOverTime.log_prob.  obs[t + 1][g][m] is the entry of group   *)
(* g, measure m at timestep t, timesteps counting from 0 as in the code.   *)
(* A log-probability is kept as the term it is computed from: the          *)
(* predictive mean and covariance and the observation, restricted to the   *)
(* dimensions evaluated.  The sum over no dimension is the value 0.        *)
(***************************************************************************)
Zero == [dims |-> {}, mean |-> <<>>, cov |-> <<>>, obs |-> <<>>]

\* The entry of _log_prob_with_subsetting for group g, timestep t over the
\* measures dims.  CensoredGaussianOverTime sums one term per measure, of
\* the diagonal of the predictive covariance; GaussianOverTime
\* (families/gaussian.py is not part of the sources at hand) evaluates the
\* multivariate normal of the whole sub-matrix.
LogProbAt(family, pred, unc, obs, g, t, dims) ==
  [dims |-> dims,
   mean |-> [m \in dims |-> pred[g][t + 1][m]],
   cov |-> [i \in dims |-> [j \in dims |->
             IF family = "Gaussian" \/ i = j THEN unc[g][t + 1][i][j] ELSE Num(0)]],
   obs |-> [m \in dims |-> obs[t + 1][g][m]]]

\* Every measure taken for valid.
which_valid_all(slice, g) == AllMeasures

\* StateBeliefOverTime._which_valid_key(is_nan)
which_valid_key(slice, g) == SortedSeq({m \in Measures : ~IsNaN(slice[g][m])})

\* `for g in range(num_groups)` at a timestep with some, not all, entries
\* missing: lp_groups[(t, measure_idx)].append(g); acc keeps the dict's
\* insertion order.
RECURSIVE LpGroups(_, _, _, _)
LpGroups(slice, t, gs, acc) ==
  IF gs = <<>> THEN acc
  ELSE LET g == Head(gs)
           measure_idx == which_valid_key(slice, g)
           hit == {n \in 1..Len(acc) :
                     acc[n].time_idx = <<t>> /\ acc[n].measure_idx = measure_idx}
       IN  IF GroupAllNan(slice, g) THEN LpGroups(slice, t, Tail(gs), acc)
           ELSE IF hit # {}
           THEN LpGroups(slice, t, Tail(gs),
                         [acc EXCEPT ![CHOOSE n \in hit : TRUE].group_idx = Append(@, g)])
           ELSE LpGroups(slice, t, Tail(gs),
                         Append(acc, [group_idx |-> <<g>>, time_idx |-> <<t>>,
                                      measure_idx |-> measure_idx, sliced |-> FALSE]))

\* `for t in range(num_times)`: the scan that fills times_without_nan,
\* last_nonan_t and lp_groups.
RECURSIVE LpScan(_, _, _)
LpScan(obs, t, acc) ==
  IF t = Len(obs) THEN acc
  ELSE IF \A g \in Groups : GroupAllNan(obs[t + 1], g) THEN LpScan(obs, t + 1, acc)
  ELSE IF ~AnyNan(obs[t + 1])
  THEN IF acc.last_nonan_t = t - 1
       THEN LpScan(obs, t + 1, [acc EXCEPT !.last_nonan_t = @ + 1])
       ELSE LpScan(obs, t + 1, [acc EXCEPT !.times_without_nan = Append(@, t)])
  ELSE LpScan(obs, t + 1,
              [acc EXCEPT !.lp_groups = LpGroups(obs[t + 1], t, AllGroups, @)])

\* slice(last_nonan_t) in place of slice(last_nonan_t + 1).
UpToBefore(n) == [k \in 1..n |-> k - 1]

\* slice(last_nonan_t + 1) as the list of its timesteps.
UpTo(n) == [k \in 1..(n + 1) |-> k - 1]

\* lp_groups as iterated by the evaluation loop: the (t, measure_idx)
\* buckets, then the leading run of timesteps without NaN, then the other
\* timesteps without NaN.
LpBuckets(obs) ==
  LET acc == LpScan(obs, 0, [times_without_nan |-> <<>>, last_nonan_t |-> -1,
                             lp_groups |-> <<>>])
  IN  acc.lp_groups
        \o (IF acc.last_nonan_t >= 0
            THEN <<[group_idx |-> AllGroups, time_idx |-> UpTo(acc.last_nonan_t),
                    measure_idx |-> AllMeasures, sliced |-> TRUE]>>
            ELSE <<>>)
        \o (IF Len(acc.times_without_nan) > 0
            THEN <<[group_idx |-> AllGroups, time_idx |-> acc.times_without_nan,
                    measure_idx |-> AllMeasures, sliced |-> TRUE]>>
            ELSE <<>>)

\* An output that starts from ones.
LpOnes(obs) == [g \in Groups |-> [t \in 1..Len(obs) |-> [Zero EXCEPT !.dims = {0}]]]

\* out = torch.zeros((num_groups, num_times))
LpZeros(obs) == [g \in Groups |-> [t \in 1..Len(obs) |-> Zero]]

\* One pass of the evaluation loop:
\* out[group_idx, time_idx] = self._log_prob_with_subsetting(...)
LpAssign(out, family, pred, unc, obs, b) ==
  [g \in Groups |-> [t1 \in 1..Len(obs) |->
     IF g \in SeqSet(b.group_idx) /\ (t1 - 1) \in SeqSet(b.time_idx)
     THEN LogProbAt(family, pred, unc, obs, g, t1 - 1, SeqSet(b.measure_idx))
     ELSE out[g][t1]]]

RECURSIVE LpEvaluate(_, _, _, _, _, _)
LpEvaluate(out, family, pred, unc, obs, buckets) ==
  IF buckets = <<>> THEN out
  ELSE LpEvaluate(LpAssign(out, family, pred, unc, obs, Head(buckets)),
                  family, pred, unc, obs, Tail(buckets))

\* The evaluation loop: prediction_uncertainty is read when there is a
\* bucket to evaluate.
LpLoop(o, pred, obs, buckets) ==
  LET u == prediction_uncertainty(o)
  IN  IF buckets = <<>> THEN [err |-> "none", val |-> Some(LpZeros(obs)), self |-> o]
      ELSE IF u.err # "none" THEN Failed(u.self, u.err)
      ELSE Got(u.self, Some(LpEvaluate(LpZeros(obs), o.family, pred, Get(u.val), obs,
                                       buckets)))

\* StateBeliefOverTime.log_prob(obs): predictions is read first, for the
\* assertion on the shape.
log_prob(o, obs) ==
  LET p == predictions(o)
  IN  IF p.err # "none" THEN Failed(p.self, p.err)
      ELSE LpLoop(p.self, Get(p.val), obs, LpBuckets(obs))

(***************************************************************************)
(* CensoredGaussianOverTime._log_prob_with_subsetting for one (group,      *)
(* time) pair of a bucket.  The terms are kept as what they are computed   *)
(* from: the kind of the term, z and std.                                  *)
(***************************************************************************)
\* The defaults of torch.isclose: rtol=1e-05, atol=1e-08.
RtolDen == 100000
AtolDen == 100000000
Rtol == <<1, RtolDen>>
Atol == <<1, AtolDen>>

\* |x| of an extended rational.
AbsVal(x) == <<Abs(x[1]), x[2]>>

\* x < y on entries that are finite and not negative: by the whole parts,
\* then by what is left of them.
Below(x, y) ==
  LET wx == x[1] \div x[2]
      wy == y[1] \div y[2]
  IN  IF wx # wy THEN wx < wy
      ELSE (x[1] - wx * x[2]) * y[2] < (y[1] - wy * y[2]) * x[2]

\* torch.isclose(a, b): a == b, or both finite and |a - b| <= atol + rtol * |b|;
\* never with a NaN.
IsClose(a, b) ==
  IF IsNaN(a) \/ IsNaN(b) THEN FALSE
  ELSE IF a = b THEN TRUE
  ELSE IF IsInf(a) \/ IsInf(b) THEN FALSE
  ELSE ~Below(Add(Atol, Mul(Rtol, AbsVal(b))), AbsVal(Sub(a, b)))

\* torch.clamp(z, lo, hi)
Clamp(z, lo, hi) ==
  IF IsNaN(z) THEN NaN
  ELSE IF Less(z, lo) THEN lo
  ELSE IF Less(hi, z) THEN hi
  ELSE z

\* Tensor.sqrt() of a variance that is the square of a whole number.
Sqrt(x) == CHOOSE r \in {Num(k) : k \in 0..x[1]} : Mul(r, r) = x

\* std_normal.log_prob(z) - std.log()
LoglikUncens(z, std) == [term |-> "uncensored", z |-> z, std |-> std]

\* std_normal.cdf(z).log(), z clamped to [-5, 5]
LoglikCensUp(z) == [term |-> "upper", z |-> Clamp(z, Num(-5), Num(5))]

\* (1. - std_normal.cdf(z)).log(), z clamped to [-5, 5]
LoglikCensLo(z) == [term |-> "lower", z |-> Clamp(z, Num(-5), Num(5))]

\* An entry of torch.zeros_like(obs).
LoglikZero == [term |-> "zero"]

\* loglik[mask] = src[mask]
MaskedAssign(loglik, mask, src) ==
  [m \in DOMAIN loglik |-> IF mask[m] THEN src[m] ELSE loglik[m]]

\* The three assignments with the upper-censored one last.
LoglikUpperLast(dims, cens_up, cens_lo, uncens, up, lo) ==
  MaskedAssign(
    MaskedAssign(
      MaskedAssign([m \in dims |-> LoglikZero], cens_lo, lo),
      [m \in dims |-> ~(cens_up[m] \/ cens_lo[m])], uncens),
    cens_up, up)

\* loglik = zeros_like(obs); loglik[cens_up] = ...; loglik[cens_lo] = ...;
\* loglik[~(cens_up | cens_lo)] = ...
Loglik(dims, cens_up, cens_lo, uncens, up, lo) ==
  MaskedAssign(
    MaskedAssign(
      MaskedAssign([m \in dims |-> LoglikZero], cens_up, up),
      cens_lo, lo),
    [m \in dims |-> ~(cens_up[m] \/ cens_lo[m])], uncens)

\* torch.sum(loglik, -1) of terms kept as they are: how many times each
\* term is added.
TermSum(loglik) ==
  [v \in {loglik[m] : m \in DOMAIN loglik} |->
     Cardinality({m \in DOMAIN loglik : loglik[m] = v})]

\* z = (pred_mean[..., m] - obs[..., m]) / std
ZScore(pred_mean, obs, std) == Div(Sub(pred_mean, obs), std)

\* torch.full_like(obs, float('inf')) when no bound is given.
BoundOr(bound, default) ==
  IF IsNone(bound) THEN [m \in Measures |-> default] ELSE Get(bound)

\* _log_prob_with_subsetting on the entries measure_idx of one (group, time)
\* pair: pred_mean and pred_cov are predictions[g, t] and the diagonal of
\* prediction_uncertainty[g, t]; lower and upper are None or the bounds at
\* [g, t].
log_prob_with_subsetting(pred_mean, pred_cov, obs, measure_idx, lower, upper) ==
  LET dims == SeqSet(measure_idx)
      up == BoundOr(upper, PosInf)
      lo == BoundOr(lower, NegInf)
      cens_up == [m \in dims |-> IsClose(obs[m], up[m])]
      cens_lo == [m \in dims |-> IsClose(obs[m], lo[m])]
      std == [m \in dims |-> Sqrt(pred_cov[m])]
      z == [m \in dims |-> ZScore(pred_mean[m], obs[m], std[m])]
      loglik == Loglik(dims, cens_up, cens_lo,
                       [m \in dims |-> LoglikUncens(z[m], std[m])],
                       [m \in dims |-> LoglikCensUp(z[m])],
                       [m \in dims |-> LoglikCensLo(z[m])])
  IN  [loglik |-> loglik, out |-> TermSum(loglik)]

(***************************************************************************)
(* StateBeliefOverTime.state_belief_for_time and last_update.  Timesteps   *)
(* count from 0; time_idx[g] is the timestep asked for group g.            *)
(***************************************************************************)
\* Timestep t is one of the sequence.
InRange(o, t) == 0 <= t /\ t < o.num_timesteps

\* Every group given the entry of timestep 0.
SelectedFirst(val, time_idx) == [g \in Groups |-> val[g][1]]

\* torch.stack of the entries [g, t] of a stacked tensor, (g, t) running
\* over enumerate(time_idx).
Selected(val, time_idx) == [g \in Groups |-> val[g][time_idx[g] + 1]]

\* self.family(means, covs) and the compute_measurement that follows.
Restored(family, means, covs, H, R) ==
  Values(compute_measurement(
           StateBelief(family, Tn("fresh", means), Tn("fresh", covs), DefaultLastMeasured),
           Tn("fresh", H), Tn("fresh", R), FALSE).self)

\* StateBeliefOverTime._restore_sb(enumerate(time_idx)): each pass of the
\* loop reads self.means, self.covs, self.H and self.R in turn, the reads
\* of H and R outside the try; an index past the end is an IndexError.
restore_sb(o, time_idx) ==
  LET mu == OverMeans(o)
      c == OverCovs(mu.self)
      h == OverH(c.self)
      r == OverR(h.self)
  IN  IF ~InRange(o, time_idx[1]) THEN Failed(c.self, "IndexError")
      ELSE IF h.err # "none" THEN Failed(h.self, h.err)
      ELSE IF r.err # "none" THEN Failed(r.self, r.err)
      ELSE IF \E g \in Groups : ~InRange(o, time_idx[g]) THEN Failed(r.self, "IndexError")
      ELSE Got(r.self,
               Some(Restored(o.family, Selected(Get(mu.val), time_idx),
                             Selected(Get(c.val), time_idx), Selected(Get(h.val), time_idx),
                             Selected(Get(r.val), time_idx))))

\* StateBeliefOverTime.state_belief_for_time(time_idx)
state_belief_for_time(o, time_idx) ==
  IF Len(time_idx) # o.num_groups THEN Failed(o, "ValueError")
  ELSE restore_sb(o, time_idx)

\* StateBeliefOverTime.last_update()
last_update(o) == restore_sb(o, o.last_update_idx)

(***************************************************************************)
(* StateBeliefOverTime.to_dataframe.  A dataset is known by its kind, a    *)
(* frame of the output by its process, its measure and whether the actual  *)
(* values were merged in.                                                  *)
(***************************************************************************)
Datasets ==
  {"TimeSeriesDataset", "TimeSeriesDataset lacking a measure", "dict with named_tensors",
   "dict", "dict without dt_unit", "list"}

Types == {"predictions", "components", "residuals"}

Colnames == {"group", "time", "mean"}

\* batch_info.get('named_tensors', {}) holds the tensor of every measure.
NamedTensors(dataset) == dataset \in {"TimeSeriesDataset", "dict with named_tensors"}

\* A type that is not known leaves an empty output.
UnknownTypeIgnored(o) == Got(o, Some(<<>>))

\* raise ValueError("Expected `type` to be 'predictions' or 'components'.")
UnknownType(o) == Failed(o, "ValueError: type")

\* The branch of type 'predictions': prediction_uncertainty is read, then
\* predictions; one frame for each measure.
PredictionFrames(o, dataset) ==
  LET u == prediction_uncertainty(o)
      p == predictions(u.self)
  IN  IF u.err # "none" THEN Failed(u.self, u.err)
      ELSE Got(p.self, Some([m \in 1..NumMeasures |->
                 [process |-> "", measure |-> m, actual |-> NamedTensors(dataset)]]))

\* StateBeliefOverTime._components: H of every belief is read; the keys
\* are the measures whose contribution of the state element is not zero
\* throughout.
components(o) ==
  IF \E t \in Times(o) : IsNone(o.state_beliefs[t].H) THEN Failed(o, "UnmeasuredError")
  ELSE Got(o, Some(SortedSeq({m \in Measures : \E t \in Times(o), g \in Groups :
                     Mul(Get(o.state_beliefs[t].H)[g][m], o.state_beliefs[t].means[g])
                       # Num(0)})))

\* The rest of the branch of type 'components' after _components: the
\* frames of the components c, then the residuals, which read predictions
\* and the shape of the named tensor of each measure.
ResidualFrames(dataset, c, p) ==
  IF p.err # "none" THEN Failed(p.self, p.err)
  ELSE IF ~NamedTensors(dataset) THEN Failed(p.self, "AttributeError")
  ELSE Got(p.self,
           Some([n \in 1..Len(c) |-> [process |-> "process", measure |-> c[n], actual |-> FALSE]]
                \o [m \in 1..NumMeasures |->
                      [process |-> "residuals", measure |-> m, actual |-> FALSE]]))

ComponentFrames(o, dataset, c) ==
  IF c.err # "none" THEN c ELSE ResidualFrames(dataset, Get(c.val), predictions(o))

\* StateBeliefOverTime.to_dataframe(dataset, type, group_colname,
\* time_colname): the error raised, or the frames concatenated.
to_dataframe(o, dataset, type, group_colname, time_colname) ==
  IF dataset = "TimeSeriesDataset lacking a measure" THEN Failed(o, "ValueError: measures")
  ELSE IF dataset = "list" THEN Failed(o, "TypeError")
  ELSE IF dataset = "dict without dt_unit" THEN Failed(o, "KeyError")
  ELSE IF group_colname = "mean" \/ time_colname = "mean" THEN Failed(o, "AssertionError")
  ELSE IF type = "predictions" THEN PredictionFrames(o, dataset)
  ELSE IF type = "components" THEN ComponentFrames(o, dataset, components(o))
  ELSE UnknownType(o)

(***************************************************************************)
(* Spec: a run of calls on a belief constructed with the default           *)
(* last_measured.                                                          *)
(***************************************************************************)
Init ==
  /\ \E family \in Families : sb = InitialBelief(family)
  /\ call = Idle
  /\ attached = None
  /\ since = [g \in Groups |-> 0]
  /\ ncalls = 0
  /\ sim = NoSim
  /\ over = NoOver
  /\ shp = NoShapes

Next ==
  \/ PredictCall({FSteady}, QChoices)
  \/ MeasureCall(HRChoices)
  \/ ReadH
  \/ ReadR
  \/ CopyCall
  \/ UpdateCall(ObsRun, {NoBounds}, {MaxTimes}, 0..MaxTimes)
  \/ Adopt

Spec == Init /\ [][Next]_vars

(***************************************************************************)
(* SpecCall: one call, with the wide input sets, on a belief the caller    *)
(* has constructed, predicted and measured.                                *)
(***************************************************************************)
Measured(b, hr) ==
  Values(compute_measurement(AsSelf(b), Tn("arg", hr.H), Tn("arg", hr.R), FALSE).self)

Predicted(b, F) ==
  Values(predict(AsSelf(b), F, CHOOSE Q \in QChoices : TRUE))

Receivers ==
  LET start == {[belief |-> InitialBelief(f), since |-> [g \in Groups |-> 0]] : f \in Families}
      next == {[belief |-> Predicted(r.belief, F), since |-> [g \in Groups |-> 1]] :
                 r \in start, F \in {FGrowing, FBlownUp}}
      bare == start \cup next
  IN  {[belief |-> r.belief, since |-> r.since, attached |-> None] : r \in bare}
        \cup {[belief |-> Measured(r.belief, hr), since |-> r.since, attached |-> Some(hr)] :
                r \in bare, hr \in HRChoices}

InitCall ==
  /\ \E r \in Receivers : sb = r.belief /\ attached = r.attached /\ since = r.since
  /\ call = Idle
  /\ ncalls = 0
  /\ sim = NoSim
  /\ over = NoOver
  /\ shp = NoShapes

NextCall ==
  \/ PredictCall(FChoices, QChoices)
  \/ MeasureCall(HRChoices)
  \/ ReadH
  \/ ReadR
  \/ CopyCall
  \/ UpdateCall(ObsSlices, BoundChoices, {1}, {0, 1})

SpecCall == InitCall /\ [][NextCall]_vars

\* The beliefs a simulation starts from.
SimReceivers ==
  LET bare == {Values(StateBelief(f, Tn("arg", [g \in Groups |-> Num(g - 1)]),
                                  Tn("arg", covs), DefaultLastMeasured)) :
                 f \in Families, covs \in SimCovChoices}
  IN  bare \cup {Measured(b, HRUnit) : b \in bare}

(***************************************************************************)
(* SpecSim: one simulate_trajectories call on a belief the caller has      *)
(* constructed with given covariances, and possibly measured.              *)
(***************************************************************************)
\* An error object: its kind, and the sampling attempt that raised it.
Error(kind, attempt) == Some([kind |-> kind, attempt |-> attempt])

\* Entering state._realize(ntry): the assertion, then the loop.
EnterRealize(s) ==
  IF s.ntry >= 1
  THEN [s EXCEPT !.pc = "loop", !.i = 0, !.new_means = None, !.lapack = None,
                 !.means0 = s.state.means, !.covs0 = s.state.covs, !.log = <<>>,
                 !.entry = s.state]
  ELSE [s EXCEPT !.pc = "raised", !.err = Error("AssertionError", 0),
                 !.means0 = s.state.means, !.covs0 = s.state.covs, !.log = <<>>,
                 !.entry = s.state]

\* sb.simulate_trajectories(design, ntry_diag_incr=ntry,
\* compute_measurements=...): the copy, and the first step up to _realize.
SimStart ==
  /\ sim.pc = "idle"
  /\ \E T \in 1..MaxSteps, ntry \in 0..MaxNtry, cm \in BOOLEAN, Q \in SimQChoices :
       sim' = EnterRealize([NoSim EXCEPT !.num_timesteps = T, !.ntry = ntry,
                                         !.compute_measurements = cm, !.Q = Some(Q),
                                         !.state = Values(copy(AsSelf(sb))),
                                         !.shared = SharedFields(copy(AsSelf(sb))),
                                         !.initial = sb])
  /\ UNCHANGED <<sb, call, attached, since, ncalls, over, shp>>

\* One pass of `for i in range(ntry)`: the attempt, the inflation when it
\* fails, the break when it succeeds.
RealizeAttempt ==
  /\ sim.pc = "loop"
  /\ sim.i < sim.ntry
  /\ \E noise \in Draws :
       LET r == sample_transition(sim.state.means, sim.state.covs, noise)
           failed == r.err # "none"
           covs == IF failed THEN Inflate(sim.state.covs) ELSE sim.state.covs
       IN  /\ sim' = [SetCovs(sim, covs) EXCEPT
                        !.new_means = r.means,
                        !.lapack = IF failed THEN Error(r.err, sim.i + 1) ELSE @,
                        !.log = Append(@, IF failed THEN "failed" ELSE "sampled"),
                        !.i = sim.i + 1,
                        !.pc = IF ~failed \/ sim.i + 1 = sim.ntry THEN "after" ELSE "loop"]
           /\ sb' = Through(sim, sb, covs)
  /\ UNCHANGED <<call, attached, since, ncalls, over, shp>>

\* After the loop: raise the last error, or store the sample and zero the
\* covariances.
RealizeEnd ==
  /\ sim.pc = "after"
  /\ sim' = IF IsNone(sim.new_means)
             THEN [sim EXCEPT !.pc = "raised", !.err = sim.lapack]
             ELSE [realized(sim) EXCEPT !.pc = "measure"]
  /\ sb' = IF IsNone(sim.new_means) THEN sb ELSE Through(sim, sb, realized(sim).state.covs)
  /\ UNCHANGED <<call, attached, since, ncalls, over, shp>>

\* The rest of the step: compute_measurement when asked for, and the append.
SimMeasure ==
  /\ sim.pc = "measure"
  /\ LET r == compute_measurement(AsSelf(sim.state), Tn("arg", HRUnit.H),
                                  Tn("arg", HRUnit.R), FALSE)
     IN  sim' = IF ~sim.compute_measurements
                THEN [Appended(sim) EXCEPT !.pc = "appended"]
                ELSE IF r.err # "none"
                THEN [sim EXCEPT !.pc = "raised", !.err = Error(r.err, 0)]
                ELSE [Appended(SetAttr(SetAttr(sim, "H", Values(r.self).H),
                                       "R", Values(r.self).R))
                        EXCEPT !.pc = "appended"]
  /\ UNCHANGED <<sb, call, attached, since, ncalls, over, shp>>

\* The next pass of `for t in times`: predict and enter _realize; or the
\* end of the loop.
SimNext ==
  /\ sim.pc = "appended"
  /\ sim' = IF sim.t + 1 < sim.num_timesteps
             THEN EnterRealize([Rebound(sim, predict(AsSelf(sim.state), FGrowing,
                                                     Get(sim.Q)))
                                  EXCEPT !.t = sim.t + 1])
             ELSE [sim EXCEPT !.pc = "done"]
  /\ UNCHANGED <<sb, call, attached, since, ncalls, over, shp>>

InitSim ==
  /\ sb \in SimReceivers
  /\ call = Idle
  /\ attached = None
  /\ since = [g \in Groups |-> 0]
  /\ ncalls = 0
  /\ sim = NoSim
  /\ over = NoOver
  /\ shp = NoShapes

NextSim == SimStart \/ RealizeAttempt \/ RealizeEnd \/ SimMeasure \/ SimNext

SpecSim == InitSim /\ [][NextSim]_vars

\* The interpreter does not stop inside _realize.
FairSpecSim == SpecSim /\ WF_vars(RealizeAttempt) /\ WF_vars(RealizeEnd)

(***************************************************************************)
(* SpecOverTime: the loop of the driver on a belief constructed with the   *)
(* default last_measured, and the StateBeliefOverTime built from the       *)
(* beliefs it collects.                                                    *)
(***************************************************************************)
\* What the driver appends in each pass: the StateBeliefOverTime docstring
\* has the one-step-ahead predictions collected, the description of the
\* driver the beliefs after the update.
Modes == {"predictions", "updated"}

\* One pass of the loop on the belief b at timestep t: predict,
\* compute_measurement, update(obs, time=t) on an obs of ext timesteps; kept
\* is the belief to append, next the belief the driver goes on with.
DriverOutcome(b, mode, prediction, r) ==
  [returned |-> r.returned, err |-> r.err,
   next |-> IF r.returned THEN Values(r.ret) ELSE b,
   kept |-> IF mode = "predictions" \/ ~r.returned THEN prediction ELSE Values(r.ret)]

DriverUpdated(b, mode, ext, t, obs, prediction) ==
  DriverOutcome(b, mode, prediction, update(AsSelf(prediction), obs, ext, Some(t), None, None))

\* The process covariance of the design of the loop.
QUnit == [g \in Groups |-> Num(1)]

\* compute_measurement (without overwrite) on the prediction from b.
DriverMeasured(b) ==
  compute_measurement(AsSelf(Values(predict(AsSelf(b), FSteady, QUnit))),
                      Tn("arg", HRUnit.H), Tn("arg", HRUnit.R), FALSE)

\* The pass after compute_measurement returned m: the loop ends when it
\* raised.
DriverChecked(b, mode, ext, t, obs, m) ==
  IF m.err # "none"
  THEN [returned |-> FALSE, err |-> m.err, next |-> b, kept |-> b]
  ELSE DriverUpdated(b, mode, ext, t, obs, Values(m.self))

DriverPass(b, mode, ext, t, obs) ==
  DriverChecked(b, mode, ext, t, obs, DriverMeasured(b))

\* The append of the belief kept by the pass r at timestep t, or the end
\* of the loop when the pass raised.
DriverAppend(mode, ext, obs, t, r) ==
  IF r.returned
  THEN /\ sb' = r.next
       /\ over' = [over EXCEPT
             !.pc = "loop", !.mode = mode, !.ext = ext,
             !.state_beliefs = Append(@, r.kept),
             !.measured = Append(@, IF t < ext
                                    THEN {g \in Groups : ~GroupAllNan(obs, g)}
                                    ELSE {})]
  ELSE /\ sb' = sb
       /\ over' = [over EXCEPT !.pc = "failed", !.err = r.err]

\* One pass of the loop at timestep t = Len(state_beliefs), and the append.
DriverStep ==
  /\ over.pc \in {"idle", "loop"}
  /\ Len(over.state_beliefs) < MaxLoop
  /\ \E mode \in IF over.pc = "idle" THEN Modes ELSE {over.mode},
        ext \in IF over.pc = "idle" THEN 1..MaxLoop ELSE {over.ext},
        obs \in ObsRun :
       DriverAppend(mode, ext, obs, Len(over.state_beliefs),
                    DriverPass(sb, mode, ext, Len(over.state_beliefs), obs))
  /\ UNCHANGED <<call, attached, since, ncalls, sim, shp>>

\* StateBeliefOverTime.__init__ on the beliefs collected in o.
StateBeliefOverTime(o) ==
  [o EXCEPT
     !.pc = "built",
     !.family = o.state_beliefs[1].family,
     !.num_groups = Cardinality(DOMAIN o.state_beliefs[1].means),
     !.num_timesteps = Len(o.state_beliefs),
     !.last_update_idx = last_update_idx(o.state_beliefs),
     !._means = None, !._covs = None, !._H = None, !._R = None]

\* family.concatenate_over_time(state_beliefs, design)
Concatenate ==
  /\ over.pc = "loop"
  /\ over' = StateBeliefOverTime(over)
  /\ UNCHANGED <<sb, call, attached, since, ncalls, sim, shp>>

\* Reading a property of the StateBeliefOverTime: r is the outcome.
Access(f, r) ==
  /\ over.pc = "built"
  /\ over' = [r.self EXCEPT !.res = [field |-> f, err |-> r.err, val |-> r.val,
                                      before |-> over[f]]]
  /\ UNCHANGED <<sb, call, attached, since, ncalls, sim, shp>>

GetMeans == Access("_means", OverMeans(over))
GetCovs == Access("_covs", OverCovs(over))
GetH == Access("_H", OverH(over))
GetR == Access("_R", OverR(over))
GetPredictions == Access("predictions", predictions(over))
GetPredictionUncertainty == Access("prediction_uncertainty", prediction_uncertainty(over))

InitOverTime ==
  /\ \E family \in Families : sb = InitialBelief(family)
  /\ call = Idle
  /\ attached = None
  /\ since = [g \in Groups |-> 0]
  /\ ncalls = 0
  /\ sim = NoSim
  /\ over = NoOver
  /\ shp = NoShapes

NextOverTime ==
  \/ DriverStep
  \/ Concatenate
  \/ GetMeans
  \/ GetCovs
  \/ GetH
  \/ GetR
  \/ GetPredictions
  \/ GetPredictionUncertainty

SpecOverTime == InitOverTime /\ [][NextOverTime]_vars

(***************************************************************************)
(* SpecLogProb: one log_prob call, and reads of the cached predictions, on *)
(* a StateBeliefOverTime the driver has built from fully observed          *)
(* timesteps.                                                              *)
(***************************************************************************)
\* The beliefs the driver collects in T passes from the belief b.
RECURSIVE Collect(_, _, _, _)
Collect(b, mode, T, acc) ==
  IF Len(acc) = T THEN acc
  ELSE Collect(DriverPass(b, mode, T, Len(acc), ObsOf(Groups, TRUE)).next, mode, T,
               Append(acc, DriverPass(b, mode, T, Len(acc), ObsOf(Groups, TRUE)).kept))

LogProbReceivers ==
  {StateBeliefOverTime([NoOver EXCEPT
      !.mode = mode, !.ext = T,
      !.state_beliefs = Collect(InitialBelief(family), mode, T, <<>>),
      !.measured = [t \in 1..T |-> Groups]]) :
     family \in Families, mode \in Modes, T \in 1..MaxLoop}

\* The slices of the obs of a log_prob call: the first group and the other
\* groups observed in the measures P1 and P2.
LpSlice(P1, P2) ==
  [g \in Groups |-> [m \in Measures |->
     IF m \in (IF g = 1 THEN P1 ELSE P2) THEN Num(1) ELSE NaN]]

\* No entry missing; all missing; the first group missing some or all;
\* every group missing the same; every group missing something.
LpSlices ==
  {LpSlice(Measures, Measures), LpSlice({}, {}), LpSlice({1}, Measures),
   LpSlice({}, Measures \ {1}), LpSlice({1}, {1}), LpSlice({1}, Measures \ {1})}

RECURSIVE LpObs(_)
LpObs(T) ==
  IF T = 0 THEN {<<>>}
  ELSE {Append(obs, slice) : obs \in LpObs(T - 1), slice \in LpSlices}

\* over.log_prob(obs), obs of num_timesteps timesteps.
LogProbCall ==
  /\ over.pc = "built"
  /\ ~over.lp.called
  /\ \E obs \in LpObs(over.num_timesteps) :
       LET r == log_prob(over, obs)
       IN  over' = [r.self EXCEPT
                      !.lp = [called |-> TRUE, obs |-> obs, err |-> r.err,
                              out |-> IF r.err = "none" THEN Get(r.val) ELSE <<>>,
                              buckets |-> LpBuckets(obs)]]
  /\ UNCHANGED <<sb, call, attached, since, ncalls, sim, shp>>

InitLogProb ==
  /\ \E family \in Families : sb = InitialBelief(family)
  /\ call = Idle
  /\ attached = None
  /\ since = [g \in Groups |-> 0]
  /\ ncalls = 0
  /\ sim = NoSim
  /\ over \in LogProbReceivers
  /\ shp = NoShapes

NextLogProb == LogProbCall \/ GetPredictions \/ GetPredictionUncertainty

SpecLogProb == InitLogProb /\ [][NextLogProb]_vars

(***************************************************************************)
(* SpecShapes: a belief constructed from tensors of any shapes, and calls  *)
(* of predict, update and copy from it on, each on the belief the one      *)
(* before returned.                                                        *)
(***************************************************************************)
\* family(means, covs[, last_measured])
Construct ==
  /\ shp.pc = "idle"
  /\ \E family \in Families,
        means \in ShapesOf(1) \cup ShapesOf(2) \cup ShapesOf(3),
        covs \in ShapesOf(2) \cup ShapesOf(3) \cup ShapesOf(4),
        last_measured \in {None} \cup {Some(l) : l \in ShapesOf(0) \cup ShapesOf(1) \cup ShapesOf(2)} :
       LET r == Constructed(family, means, covs, last_measured)
       IN  shp' = [pc |-> IF r.err = "none" THEN "held" ELSE "raised",
                   initial |-> r.ret, cur |-> r.ret, op |-> "construct", err |-> r.err,
                   ret |-> r.ret,
                   args |-> [means |-> means, covs |-> covs, last_measured |-> last_measured]]
  /\ UNCHANGED <<sb, call, attached, since, ncalls, sim, over>>

\* The outcome r of a call on the belief held: the caller goes on with the
\* belief returned.
ShapesAfter(op, r) ==
  /\ shp.pc = "held"
  /\ shp' = [shp EXCEPT !.op = op, !.err = r.err, !.ret = r.ret,
                         !.cur = IF r.err = "none" THEN r.ret ELSE @]
  /\ UNCHANGED <<sb, call, attached, since, ncalls, sim, over>>

PredictShapes == \E F \in ShapesOf(3), Q \in ShapesOf(3) :
                   ShapesAfter("predict", predict_shapes(shp.cur, F, Q))

UpdateShapes == \E any_nan \in BOOLEAN, means_new \in ShapesOf(2), covs_new \in ShapesOf(3) :
                  ShapesAfter("update", update_shapes(shp.cur, any_nan, means_new, covs_new))

CopyShapes == ShapesAfter("copy", copy_shapes(shp.cur))

InitShapes ==
  /\ \E family \in Families : sb = InitialBelief(family)
  /\ call = Idle
  /\ attached = None
  /\ since = [g \in Groups |-> 0]
  /\ ncalls = 0
  /\ sim = NoSim
  /\ over = NoOver
  /\ shp = NoShapes

NextShapes == Construct \/ PredictShapes \/ UpdateShapes \/ CopyShapes

SpecShapes == InitShapes /\ [][NextShapes]_vars

(***************************************************************************)
(* SpecExport: to_dataframe, state_belief_for_time and last_update on a    *)
(* StateBeliefOverTime built from the beliefs a loop collected; df and at  *)
(* record the most recent call.                                            *)
(***************************************************************************)
\* over.to_dataframe(dataset, type, group_colname, time_colname)
ToDataframe ==
  /\ over.pc = "built"
  /\ \E dataset \in Datasets, type \in Types,
        group_colname \in Colnames \ {"time"}, time_colname \in Colnames \ {"group"} :
       LET r == to_dataframe(over, dataset, type, group_colname, time_colname)
       IN  over' = [r.self EXCEPT
                      !.df = [called |-> TRUE, dataset |-> dataset, type |-> type,
                              group_colname |-> group_colname,
                              time_colname |-> time_colname, err |-> r.err, out |-> r.val],
                      !.at = NoRestore]
  /\ UNCHANGED <<sb, call, attached, since, ncalls, sim, shp>>

\* The time_idx of a call: a timestep for each group, the first past the
\* end among them; or timestep 0 for a group fewer or more than there are.
TimeIdxs(T) ==
  [Groups -> 0..T] \cup {[k \in 1..n |-> 0] : n \in {NumGroups - 1, NumGroups + 1}}

\* over.state_belief_for_time(time_idx)
StateBeliefForTime ==
  /\ over.pc = "built"
  /\ \E time_idx \in TimeIdxs(over.num_timesteps) :
       LET r == state_belief_for_time(over, time_idx)
       IN  over' = [r.self EXCEPT
                      !.at = [op |-> "state_belief_for_time", time_idx |-> time_idx,
                              err |-> r.err, ret |-> r.val],
                      !.df = NoFrames]
  /\ UNCHANGED <<sb, call, attached, since, ncalls, sim, shp>>

\* over.last_update()
LastUpdate ==
  /\ over.pc = "built"
  /\ LET r == last_update(over)
     IN  over' = [r.self EXCEPT
                    !.at = [op |-> "last_update", time_idx |-> over.last_update_idx,
                            err |-> r.err, ret |-> r.val],
                    !.df = NoFrames]
  /\ UNCHANGED <<sb, call, attached, since, ncalls, sim, shp>>

InitExport ==
  /\ \E family \in Families : sb = InitialBelief(family)
  /\ call = Idle
  /\ attached = None
  /\ since = [g \in Groups |-> 0]
  /\ ncalls = 0
  /\ sim = NoSim
  /\ over \in LogProbReceivers
  /\ shp = NoShapes

NextExport == ToDataframe \/ StateBeliefForTime \/ LastUpdate

SpecExport == InitExport /\ [][NextExport]_vars

(***************************************************************************)
(* SpecCensoredLogProb: one evaluation of the censored log-probability at  *)
(* a (group, time) pair, on drawn predictions, observations and bounds.    *)
(***************************************************************************)
\* Observed values: at a bound, within the tolerance of isclose above it,
\* away from every bound, and the infinities.
LpObsValues == {Num(0), Num(1), <<1000001, 1000000>>, Num(3), PosInf, NegInf}

LpLowerValues == {NegInf, Num(0), Num(1)}
LpUpperValues == {PosInf, Num(1), Num(3)}

\* None, or the same bound for every measure.
LpBounds(values) == {None} \cup {Some([m \in Measures |-> v]) : v \in values}

\* An observation with at least one entry that is not missing.
LpPoints ==
  {obs \in [Measures -> LpObsValues \cup {NaN}] : \E m \in Measures : ~IsNaN(obs[m])}

\* No evaluation yet: the arguments drawn.
LpDrawn(pred_mean, pred_cov, obs, lower, upper) ==
  [op |-> "drawn", err |-> "none",
   args |-> [pred_mean |-> [m \in Measures |-> pred_mean],
             pred_cov |-> [m \in Measures |-> pred_cov],
             obs |-> obs, lower |-> lower, upper |-> upper,
             measure_idx |-> SortedSeq({m \in Measures : ~IsNaN(obs[m])})],
   ret |-> None]

\* self._log_prob_with_subsetting(obs, ..., measure_idx, lower=, upper=)
LogProbWithSubsetting ==
  /\ call.op = "drawn"
  /\ call' = [call EXCEPT
       !.op = "_log_prob_with_subsetting",
       !.ret = Some(log_prob_with_subsetting(call.args.pred_mean, call.args.pred_cov,
                                             call.args.obs, call.args.measure_idx,
                                             call.args.lower, call.args.upper))]
  /\ UNCHANGED <<sb, attached, since, ncalls, sim, over, shp>>

InitCensoredLogProb ==
  /\ sb = InitialBelief("CensoredGaussian")
  /\ \E pred_mean \in {Num(0), Num(7)}, pred_cov \in {Num(1), Num(4)}, obs \in LpPoints,
        lower \in LpBounds(LpLowerValues), upper \in LpBounds(LpUpperValues) :
       call = LpDrawn(pred_mean, pred_cov, obs, lower, upper)
  /\ attached = None
  /\ since = [g \in Groups |-> 0]
  /\ ncalls = 0
  /\ sim = NoSim
  /\ over = NoOver
  /\ shp = NoShapes

NextCensoredLogProb == LogProbWithSubsetting

SpecCensoredLogProb == InitCensoredLogProb /\ [][NextCensoredLogProb]_vars

C2_ReadMeasurement ==
  /\ call.op = "H" =>
       IF IsNone(attached) THEN call.err = "UnmeasuredError" /\ IsNone(call.val)
       ELSE call.err = "none" /\ call.val = Some(Get(attached).H)
  /\ call.op = "R" =>
       IF IsNone(attached) THEN call.err = "UnmeasuredError" /\ IsNone(call.val)
       ELSE call.err = "none" /\ call.val = Some(Get(attached).R)

\* R has been read, and returned, on a belief that was predicted and then
\* measured with a matrix other than the identity.
C2_Witness ==
  /\ call.op = "R"
  /\ call.err = "none"
  /\ ncalls > 0
  /\ ~IsNone(attached)
  /\ call.val = Some(Get(attached).R)
  /\ Get(attached).R # HRUnit.R

\* C3: predict(F, Q) returns a new belief of the receiver's family with,
\* per group, mean F.mean, covariance F.cov.Ft + Q and last_measured one
\* more than the receiver's.
C3_Predict ==
  call.op = "predict" =>
    /\ call.returned
    /\ call.shared = {}
    /\ call.ret.family = call.pre.family
    /\ \A g \in Groups :
         LET F == Get(call.args.F)[g]
             Q == Get(call.args.Q)[g]
         IN  /\ call.ret.means[g] = Mul(F, call.pre.means[g])
             /\ call.ret.covs[g] = Add(Mul(Mul(F, call.pre.covs[g]), F), Q)
             /\ call.ret.last_measured[g] = call.pre.last_measured[g] + 1

\* A predict with a growing transition has returned from a belief that had
\* itself been predicted.
C3_Witness ==
  /\ call.op = "predict"
  /\ call.returned
  /\ call.args.F = Some(FGrowing)
  /\ \A g \in Groups : call.pre.last_measured[g] = 1 /\ call.ret.last_measured[g] = 2
  /\ call.ret.means # call.pre.means

\* An update call with a time selector within the data horizon.
Within == call.op = "update" /\ Get(call.args.time) < call.args.ext

\* An update call with a time selector past the data horizon.
Past == call.op = "update" /\ Get(call.args.time) >= call.args.ext

\* Group g is missing in every measure of the observation of the call.
AllMissing(g) == \A m \in Measures : Get(call.args.obs)[g][m] = NaN

\* The observation of the call has an infinite entry.
HasInf ==
  \E g \in Groups, m \in Measures :
    Get(call.args.obs)[g][m] \in {PosInf, NegInf}

\* C4: an update returns, for every group all of whose measures are
\* missing, the receiver's mean, covariance and last_measured, in both
\* families and whatever the other groups observe.
C4_MissingGroupKept ==
  (Within /\ call.returned) =>
    \A g \in Groups :
      AllMissing(g) =>
        /\ call.ret.means[g] = call.pre.means[g]
        /\ call.ret.covs[g] = call.pre.covs[g]
        /\ call.ret.last_measured[g] = call.pre.last_measured[g]

\* A censored update has returned where the last group was all missing,
\* with a non-zero mean and last_measured, and the first group was not and
\* got a new mean.
C4_Witness ==
  /\ Within
  /\ call.returned
  /\ call.pre.family = "CensoredGaussian"
  /\ AllMissing(NumGroups)
  /\ ~AllMissing(1)
  /\ call.pre.last_measured[NumGroups] = 1
  /\ call.pre.means[NumGroups] # Num(0)
  /\ call.ret.means[1] # call.pre.means[1]

\* C5: from a belief constructed with the default last_measured, after any
\* run of predict and update calls last_measured[g] is the number of
\* predict steps since the last update in which g had a non-missing measure
\* (since construction if there was none), and is never negative.
C5_LastMeasured ==
  \A g \in Groups :
    /\ Current.last_measured[g] = since[g]
    /\ Current.last_measured[g] >= 0

\* An update has returned in which the first group was observed and the last
\* was not, after two predicts: the counts are 0 and 2.
C5_Witness ==
  /\ Within
  /\ call.returned
  /\ ~AllMissing(1)
  /\ AllMissing(NumGroups)
  /\ Current.last_measured[1] = 0
  /\ Current.last_measured[NumGroups] = 2

\* C6: update with a time selector at or past the time extent of obs
\* returns, in both families, a belief that shares no storage with the
\* receiver, with the receiver's means, covariances, last_measured, H and
\* R; it raises nothing whatever obs and the bounds hold, and the receiver
\* is as it was.
C6_PastHorizonCopy ==
  Past =>
    /\ call.returned
    /\ call.err = "none"
    /\ call.shared = {}
    /\ call.ret = call.pre
    /\ sb = call.pre

\* A censored update past the horizon has returned although obs has an
\* infinite entry, lower has a NaN entry and the receiver, which has a
\* measurement attached, has a NaN mean.
C6_Witness ==
  /\ Past
  /\ call.returned
  /\ call.pre.family = "CensoredGaussian"
  /\ HasInf
  /\ ~IsNone(call.args.lower)
  /\ \E g \in Groups, m \in Measures : Get(call.args.lower)[g][m] = NaN
  /\ \E g \in Groups : call.pre.means[g] = NaN
  /\ ~IsNone(call.pre.H)
  /\ call.ret.H = call.pre.H

\* C7: an update within the horizon whose observation has an infinite entry
\* raises and returns no belief; one that returns a belief had no infinite
\* entry in its observation and returns no NaN mean.
C7_InfNanRejected ==
  Within =>
    /\ HasInf => call.err # "none" /\ ~call.returned
    /\ call.returned =>
         /\ call.err = "none"
         /\ ~HasInf
         /\ \A g \in Groups : call.ret.means[g] # NaN

\* An update on a measured belief has raised for an infinite entry of obs.
C7_Witness ==
  /\ Within
  /\ HasInf
  /\ ~IsNone(call.pre.H)
  /\ call.err = "InfObs"

\* An update of the censored family within the horizon.
Censored == Within /\ call.pre.family = "CensoredGaussian"

\* The position (g, m) is active: its observation is not missing.
Active(g, m) == Get(call.args.obs)[g][m] # NaN

\* The bounds of the call at a position, an omitted tensor being infinite.
Lower(g, m) == IF IsNone(call.args.lower) THEN NegInf ELSE Get(call.args.lower)[g][m]
Upper(g, m) == IF IsNone(call.args.upper) THEN PosInf ELSE Get(call.args.upper)[g][m]

Degenerate(g, m) == Lower(g, m) # NaN /\ Lower(g, m) = Upper(g, m)
NanBound(g, m) == Lower(g, m) = NaN \/ Upper(g, m) = NaN

ActiveDegenerate == \E g \in Groups, m \in Measures : Active(g, m) /\ Degenerate(g, m)
ActiveNanBound == \E g \in Groups, m \in Measures : Active(g, m) /\ NanBound(g, m)

\* C8 as stated: a censored update raises the degenerate-interval error
\* whenever lower equals upper at an active position, and not when they are
\* equal at missing positions only.
C8_AsStated ==
  Censored =>
    /\ ActiveDegenerate => call.err = "LowerEqUpper"
    /\ ~ActiveDegenerate => call.err # "LowerEqUpper"

\* C8: a censored update with lower equal to upper at an active position
\* raises and returns no belief; the error is the degenerate-interval one
\* when the belief has a measurement attached and no bound is NaN at an
\* active position (or else that of a singular system matrix); and the
\* degenerate-interval error is raised only for an equality at an active
\* position.
C8_DegenerateInterval ==
  Censored =>
    /\ ActiveDegenerate => call.err # "none" /\ ~call.returned
    /\ (ActiveDegenerate /\ ~ActiveNanBound /\ ~IsNone(call.pre.H)) =>
         call.err \in {"LowerEqUpper", "SingularError"}
    /\ call.err = "LowerEqUpper" => ActiveDegenerate

\* The degenerate-interval error has been raised by an update of two
\* buckets of groups.
C8_Witness ==
  /\ Censored
  /\ ActiveDegenerate
  /\ Len(call.buckets) > 1
  /\ call.err = "LowerEqUpper"

\* C9 as stated: a censored update within the horizon raises whenever the
\* supplied lower or upper has a NaN entry at that timestep, and raises no
\* such error when they are omitted.
C9_AsStated ==
  Censored =>
    /\ (\E g \in Groups, m \in Measures : NanBound(g, m)) =>
         call.err # "none" /\ ~call.returned
    /\ (IsNone(call.args.lower) /\ IsNone(call.args.upper)) =>
         call.err \notin {"NanLower", "NanUpper"}

\* C9: a censored update within the horizon raises and returns no belief
\* whenever the supplied lower or upper is NaN at an active position; the
\* error is the NaN-bound one when the belief has a measurement attached and
\* no interval is degenerate at an active position (or else that of a
\* singular system matrix); and a NaN-bound error is raised only for a NaN
\* of the supplied tensor at an active position.
C9_NanBounds ==
  Censored =>
    /\ ActiveNanBound => call.err # "none" /\ ~call.returned
    /\ (ActiveNanBound /\ ~ActiveDegenerate /\ ~IsNone(call.pre.H)) =>
         call.err \in {"NanLower", "NanUpper", "SingularError"}
    /\ call.err = "NanLower" =>
         /\ ~IsNone(call.args.lower)
         /\ \E g \in Groups, m \in Measures : Active(g, m) /\ Lower(g, m) = NaN
    /\ call.err = "NanUpper" =>
         /\ ~IsNone(call.args.upper)
         /\ \E g \in Groups, m \in Measures : Active(g, m) /\ Upper(g, m) = NaN

\* A censored update has returned a belief although the supplied lower is
\* NaN at a position whose observation is missing.
C9_Witness ==
  /\ Censored
  /\ call.returned
  /\ ~IsNone(call.args.lower)
  /\ \E g \in Groups, m \in Measures : ~Active(g, m) /\ Lower(g, m) = NaN
  /\ \E g \in Groups, m \in Measures : Active(g, m)

\* The number of failed attempts of the _realize in progress.
Failures == Cardinality({k \in 1..Len(sim.log) : sim.log[k] = "failed"})

\* Adding 1e-09 n times to x.
RECURSIVE Inflated(_, _)
Inflated(x, n) == IF n = 0 THEN x ELSE Add(Inflated(x, n - 1), <<1, EpsDen>>)

\* _realize(ntry), while it runs and when it has raised: it has made at most
\* ntry attempts, none after a successful one; every group's covariance is
\* the one it started from plus 1e-09 for every failed attempt; and when
\* it has raised after an attempt, all ntry attempts had failed, the error
\* is the one of the last attempt, and the mean is the one it started from.
C10_Safe ==
  sim.pc \in {"loop", "after", "raised"} /\ (IsNone(sim.err) \/ Get(sim.err).attempt > 0) =>
    /\ Len(sim.log) <= sim.ntry
    /\ \A k \in 1..Len(sim.log) : sim.log[k] = "sampled" => k = Len(sim.log)
    /\ \A g \in Groups : sim.state.covs[g] = Inflated(sim.covs0[g], Failures)
    /\ sim.pc = "loop" => Failures = Len(sim.log)
    /\ sim.pc = "raised" =>
         /\ Failures = sim.ntry
         /\ sim.err = Some([kind |-> "LapackError", attempt |-> sim.ntry])
         /\ sim.state.means = sim.means0

\* C10: _realize(ntry) makes at most ntry attempts and stops at the first
\* success; every failed attempt adds 1e-09 to every group's covariance;
\* when all ntry attempts fail, the error of the last one is raised and the
\* mean is unchanged; and the loop always ends.
C10_Realize == []C10_Safe /\ ((sim.pc = "loop") ~> (sim.pc # "loop"))

\* _realize has raised after three failed attempts on a covariance that was
\* negative.
C10_Witness ==
  /\ sim.pc = "raised"
  /\ sim.ntry = 3
  /\ sim.log = <<"failed", "failed", "failed">>
  /\ sim.err = Some([kind |-> "LapackError", attempt |-> 3])
  /\ sim.covs0[1] = Num(-1)

\* C11: when _realize returns normally, the mean of the belief it was called
\* on is the sample of the attempt that succeeded, which was the last one,
\* every covariance is exactly zero, whatever the failed attempts had added
\* to it, and last_measured, H and R are the ones it had on entry.
C11_Realized ==
  sim.pc = "measure" =>
    /\ sim.log # <<>> /\ sim.log[Len(sim.log)] = "sampled"
    /\ sim.state.means = Get(sim.new_means)
    /\ \E noise \in Draws :
         sim.new_means =
           sample_transition(sim.entry.means,
                             [g \in Groups |-> Inflated(sim.covs0[g], Failures)], noise).means
    /\ \A g \in Groups : sim.state.covs[g] = Num(0)
    /\ sim.state.last_measured = sim.entry.last_measured
    /\ sim.state.H = sim.entry.H
    /\ sim.state.R = sim.entry.R
    /\ sim.state.family = sim.entry.family

\* _realize has returned after two failed attempts, on a belief with a
\* measurement attached whose first covariance was negative on entry.
C11_Witness ==
  /\ sim.pc = "measure"
  /\ Failures = 2
  /\ ~IsNone(sim.entry.H)
  /\ sim.covs0[1] = <<-1, EpsDen>>
  /\ sim.state.covs[1] = Num(0)

\* The beliefs appended so far are realized: belief k (the one of timestep
\* k - 1) has zero covariances and the receiver's last_measured plus k - 1,
\* the first mean is a sample around the receiver's mean and every later one
\* a sample around F times the mean before it.
Trajectory ==
  \A k \in 1..Len(sim.states) :
    LET b == sim.states[k]
        from == IF k = 1 THEN sim.initial.means
                ELSE [g \in Groups |-> Mul(FGrowing[g], sim.states[k - 1].means[g])]
    IN  /\ b.family = sim.initial.family
        /\ \A g \in Groups : b.covs[g] = Num(0)
        /\ \A g \in Groups : b.last_measured[g] = sim.initial.last_measured[g] + (k - 1)
        /\ \E noise \in Draws : b.means = [g \in Groups |-> Add(from[g], noise)]

\* C12: while simulate_trajectories runs and when it has returned, the
\* beliefs appended are the realized trajectory, each still as it was when
\* appended; the receiver is as it was at the call; and when the call has
\* returned, exactly num_timesteps beliefs have been collected.
C12_Simulate ==
  sim.pc # "idle" =>
    /\ Trajectory
    /\ sim.states = sim.snaps
    /\ sb = sim.initial
    /\ Len(sim.states) <= sim.num_timesteps
    /\ sim.pc = "done" => Len(sim.states) = sim.num_timesteps

\* A simulation of two timesteps has returned, from a belief whose first
\* covariance was zero, so that _realize wrote to the covariances of the
\* copy before sampling.
C12_Witness ==
  /\ sim.pc = "done"
  /\ sim.num_timesteps = 2
  /\ Len(sim.states) = 2
  /\ sim.initial.covs[1] = Num(0)
  /\ sim.states[1].means # sim.states[2].means

\* The timesteps at which the driver's update had a non-missing
\* observation of group g.
MeasuredAt(g) == {t \in 0..(Len(over.measured) - 1) : g \in over.measured[t + 1]}

\* C17: for a StateBeliefOverTime built from the beliefs the driver
\* appended after each update, last_update_idx[g] is the last timestep at
\* which group g had a non-missing observation, for every group that had
\* one.
C17_LastUpdateIdx ==
  over.pc = "built" /\ over.mode = "updated" =>
    \A g \in Groups :
      MeasuredAt(g) # {} => over.last_update_idx[g] = Max(MeasuredAt(g))

\* Every derived attribute has been computed at most once and is empty
\* exactly when it never was; all are empty until the first read; a read
\* that returned has returned what the attribute now holds, which is what
\* it held before when it was not empty; a read that raised has left its
\* attribute empty; and what is held is the stack of the beliefs' values.
C18_Caches ==
  /\ over.pc # "built" => \A f \in Derived : IsNone(over[f])
  /\ over.pc = "built" =>
       /\ \A f \in Derived :
            over.computed[f] <= 1 /\ (IsNone(over[f]) <=> over.computed[f] = 0)
       /\ over.res.field = "none" => \A f \in Derived : IsNone(over[f])
       /\ over.res.field \in Derived /\ over.res.err = "none" =>
            /\ ~IsNone(over.res.val)
            /\ over[over.res.field] = over.res.val
            /\ ~IsNone(over.res.before) => over.res.val = over.res.before
       /\ over.res.field \in Derived /\ over.res.err # "none" =>
            IsNone(over[over.res.field]) /\ IsNone(over.res.before)
       /\ ~IsNone(over._means) => Get(over._means) = Stacked(over, "means")
       /\ ~IsNone(over._covs) => Get(over._covs) = Stacked(over, "covs")
       /\ ~IsNone(over._H) => Get(over._H) = StackedOpt(over, "H")
       /\ ~IsNone(over._R) => Get(over._R) = StackedOpt(over, "R")

\* No step empties or changes a derived attribute that holds a value.
C18_Kept == \A f \in Derived : ~IsNone(over[f]) => over'[f] = over[f]

\* C18: the derived attributes of a StateBeliefOverTime (stacked means,
\* covs, H, R, predictions, prediction_uncertainty) are empty after
\* construction, computed by the first read, returned as first computed by
\* every later read without being computed again, never reset by any
\* operation, and left empty by a first read that raises.
C18_LazyOnce == []C18_Caches /\ [][C18_Kept]_vars

\* prediction_uncertainty has been read a second time, after every other
\* derived attribute was computed.
C18_Witness ==
  /\ over.pc = "built"
  /\ over.res.field = "prediction_uncertainty"
  /\ ~IsNone(over.res.before)
  /\ \A f \in Derived : over.computed[f] = 1

\* The pairs (group, timestep) of the obs of the log_prob call.
LpPairs == Groups \X (0..(Len(over.lp.obs) - 1))

\* The measures of group g not missing at timestep t.
ValidAt(g, t) == {m \in Measures : ~IsNaN(over.lp.obs[t + 1][g][m])}

\* C13: in the result of log_prob(obs), every (group, time) entry whose
\* observation is missing in all measures is exactly zero.
C13_MissingIsZero ==
  over.lp.called /\ over.lp.err = "none" =>
    \A p \in LpPairs : ValidAt(p[1], p[2]) = {} => over.lp.out[p[1]][p[2] + 1] = Zero

\* log_prob has returned for an obs of three timesteps in which some group
\* is fully missing at a timestep where another is not, one timestep is
\* fully missing and one has no missing entry.
C13_Witness ==
  /\ over.lp.called /\ over.lp.err = "none"
  /\ Len(over.lp.obs) = 3
  /\ \E p \in LpPairs, q \in LpPairs :
       p[2] = q[2] /\ ValidAt(p[1], p[2]) = {} /\ ValidAt(q[1], q[2]) # {}
  /\ \E t \in 0..2 : \A g \in Groups : ValidAt(g, t) = {}
  /\ \E t \in 0..2 : \A g \in Groups : ValidAt(g, t) = Measures

\* The log-probability of the pair (g, t) on its own: the predictive
\* distribution of the belief of timestep t, restricted to the measures of
\* group g that are not missing at t.
Naive(g, t) ==
  LogProbAt(over.family,
            Predictions(StackedOpt(over, "H"), Stacked(over, "means")),
            PredictionUncertainty(StackedOpt(over, "H"), Stacked(over, "covs"),
                                  StackedOpt(over, "R")),
            over.lp.obs, g, t, ValidAt(g, t))

\* C14: the result of the bucketed log_prob at every (group, time) pair is
\* the log-probability of that pair evaluated on its own over exactly its
\* non-missing measures, whatever is missing in other groups or timesteps.
C14_BucketedIsNaive ==
  over.lp.called /\ over.lp.err = "none" =>
    \A p \in LpPairs : over.lp.out[p[1]][p[2] + 1] = Naive(p[1], p[2])

\* log_prob has returned for an obs in which the buckets are of all three
\* sorts: a (timestep, measures) bucket holding two groups, the leading run
\* of timesteps without NaN, and a later timestep without NaN.
C14_Witness ==
  /\ over.lp.called /\ over.lp.err = "none"
  /\ Len(over.lp.buckets) >= 3
  /\ \E n \in 1..Len(over.lp.buckets) :
       ~over.lp.buckets[n].sliced /\ Len(over.lp.buckets[n].group_idx) = 2
  /\ \E n \in 1..Len(over.lp.buckets) :
       over.lp.buckets[n].sliced /\ over.lp.buckets[n].time_idx = <<0>>
  /\ \E n \in 1..Len(over.lp.buckets) :
       over.lp.buckets[n].sliced /\ over.lp.buckets[n].time_idx = <<2>>

\* The places of group g in the buckets of the update call: bucket n,
\* position x of its group_idx.
PlacesOf(g) ==
  {p \in (1..Len(call.buckets)) \X Groups :
     p[2] <= Len(call.buckets[p[1]].group_idx) /\ call.buckets[p[1]].group_idx[p[2]] = g}

\* The measures of group g that are not missing in the observation of the
\* call.
NotMissing(g) == {m \in Measures : ~IsNaN(Get(call.args.obs)[g][m])}

\* _update_group called for group g alone, over its non-missing measures,
\* on the receiver of the call.
Single(g) ==
  update_group(AsSelf(call.pre), Get(call.args.obs), <<g>>, SortedSeq(NotMissing(g)),
               call.args.lower, call.args.upper)

\* C15: in an update that returns, every group with a non-missing measure
\* is in exactly one _update_group call, whose which_valid is exactly the
\* group's non-missing measures, and its returned mean and covariance are
\* those of _update_group called for that group alone over these measures;
\* a group missing in every measure is in no call.
C15_OneCallPerGroup ==
  (Within /\ call.returned) =>
    \A g \in Groups :
      IF AllMissing(g) THEN PlacesOf(g) = {}
      ELSE /\ Cardinality(PlacesOf(g)) = 1
           /\ \A p \in PlacesOf(g) :
                call.buckets[p[1]].which_valid = SortedSeq(NotMissing(g))
           /\ Single(g).err = "none"
           /\ call.ret.means[g] = Single(g).means[1]
           /\ call.ret.covs[g] = Single(g).covs[1]

\* An update has returned in which one group misses one measure, another
\* misses nothing, and the two were updated in different calls.
C15_Witness ==
  /\ Within /\ call.returned
  /\ Len(call.buckets) = 2
  /\ \E g \in Groups : NotMissing(g) = {1}
  /\ \E g \in Groups : NotMissing(g) = Measures
  /\ \E g \in Groups : call.ret.means[g] # call.pre.means[g]

\* x rounded to three decimals is n / 1000.
Rounds(x, n) ==
  /\ ~Less(x, <<2 * n - 1, 2000>>)
  /\ Less(x, <<2 * n + 1, 2000>>)

\* The scalar scenario, in the first group: from mean 0 and covariance 1,
\* predict with F = 1 and Q = 0.1, compute_measurement with H = 1 and
\* R = 1, and an update that has returned, with the observation 1.0 of the
\* first measure only and no censoring.
Scalar ==
  /\ Within /\ call.returned
  /\ ncalls = 2
  /\ call.pre.last_measured[1] = 1
  /\ call.pre.means[1] = Num(0)
  /\ call.pre.covs[1] = Add(Mul(Mul(FSteady[1], Num(1)), FSteady[1]), <<1, 10>>)
  /\ NotMissing(1) = {1}
  /\ ~IsNone(call.pre.H) /\ Get(call.pre.H)[1][1] = Num(1)
  /\ ~IsNone(call.pre.R) /\ Get(call.pre.R)[1][1][1] = Num(1)
  /\ Get(call.args.obs)[1][1] = Num(1)
  /\ IsNone(call.args.lower) /\ IsNone(call.args.upper)

\* The Kalman gain of the scenario.
ScalarGain ==
  kalman_gain(call.pre.covs[1], <<Num(1)>>, <<<<Num(1)>>>>, <<Num(1)>>, 1).K[1]

\* The scenario as stated: gain and mean about 0.524, covariance about
\* 0.476.
C16_AsStated ==
  Scalar =>
    /\ Rounds(ScalarGain, 524)
    /\ Rounds(call.ret.means[1], 524)
    /\ Rounds(call.ret.covs[1], 476)

\* C16: in the scalar scenario the gain is 1.1 / 2.1 = 11/21, about 0.524,
\* the updated mean is 11/21 and the updated covariance is
\* (1 - K) * 1.1 = 11/21, about 0.524.
C16_Scalar ==
  Scalar =>
    /\ ScalarGain = <<11, 21>> /\ Rounds(ScalarGain, 524)
    /\ call.ret.means[1] = <<11, 21>>
    /\ call.ret.covs[1] = Mul(Sub(Num(1), ScalarGain), <<11, 10>>)
    /\ call.ret.covs[1] = <<11, 21>> /\ Rounds(call.ret.covs[1], 524)

\* The update of the scalar scenario has returned, in the censored family.
C16_Witness ==
  /\ Scalar
  /\ call.pre.family = "CensoredGaussian"
  /\ call.ret.covs[1] = <<11, 21>>

\* The shape invariants of a belief: means of rank 2, covs of rank 3 with
\* the batch size of means, square, of the state size of means, and
\* last_measured of rank 1 and of the length of the group count.
ShapesValid(means, covs, last_measured) ==
  /\ Len(means) = 2
  /\ Len(covs) = 3
  /\ covs[1] = means[1]
  /\ covs[2] = covs[3]
  /\ covs[2] = means[2]
  /\ Len(last_measured) = 1
  /\ last_measured[1] = means[1]

\* last_measured as __init__ takes it: the default is of the length of the
\* first size of means.
GivenLastMeasured ==
  IF IsNone(shp.args.last_measured)
  THEN IF shp.args.means = <<>> THEN <<>> ELSE <<shp.args.means[1]>>
  ELSE Get(shp.args.last_measured)

\* C19: constructing a StateBelief raises unless means is of rank 2, covs
\* of rank 3 with the batch size of means, square and of the state size of
\* means, and last_measured of rank 1 with the length of the group count;
\* and every belief there is, the one constructed and those predict,
\* update and copy returned, has these shapes.
C19_Validated ==
  /\ shp.op = "construct" =>
       (shp.err = "none" <=> ShapesValid(shp.args.means, shp.args.covs, GivenLastMeasured))
  /\ shp.pc = "held" =>
       /\ ShapesValid(shp.cur.means, shp.cur.covs, shp.cur.last_measured)
       /\ shp.cur.num_groups = shp.cur.means[1]
  /\ shp.op # "none" /\ shp.err = "none" =>
       ShapesValid(shp.ret.means, shp.ret.covs, shp.ret.last_measured)

\* A construction has raised for covs that is not square and otherwise
\* fits means and last_measured.
C19_Witness ==
  /\ shp.op = "construct"
  /\ shp.err = "ValueError"
  /\ Len(shp.args.means) = 2 /\ Len(shp.args.covs) = 3
  /\ shp.args.covs[1] = shp.args.means[1]
  /\ shp.args.covs[2] = shp.args.means[2]
  /\ shp.args.covs[3] # shp.args.covs[2]
  /\ shp.args.last_measured = Some(<<shp.args.means[1]>>)

\* C20: every belief obtained from the constructed one by predict, update
\* and copy has its group count and its family.
C20_SameGroupsAndFamily ==
  shp.pc = "held" =>
    /\ shp.cur.num_groups = shp.initial.num_groups
    /\ shp.cur.family = shp.initial.family
    /\ shp.err = "none" =>
         shp.ret.num_groups = shp.initial.num_groups /\ shp.ret.family = shp.initial.family

\* predict has returned a belief of two groups from a belief of two
\* groups, and a belief of another state size than the constructed one.
C20_Witness ==
  /\ shp.pc = "held"
  /\ shp.op = "predict" /\ shp.err = "none"
  /\ shp.initial.num_groups = 2
  /\ shp.ret.num_groups = 2
  /\ shp.ret.means[2] # shp.initial.means[2]

\* The buckets of the log_prob call that hold the pair (g, t).
BucketsAt(g, t) ==
  {n \in 1..Len(over.lp.buckets) :
     g \in SeqSet(over.lp.buckets[n].group_idx) /\ t \in SeqSet(over.lp.buckets[n].time_idx)}

\* No index twice in the sequence s.
NoRepeat(s) == \A i \in 1..Len(s), j \in 1..Len(s) : s[i] = s[j] => i = j

\* Timestep t of the obs of the log_prob call has no missing entry.
NanFree(t) == \A g \in Groups : ValidAt(g, t) = Measures

\* The last timestep of the run of timesteps without NaN that starts at
\* timestep 0; -1 when timestep 0 has a missing entry.
LeadingRun ==
  Max({-1} \cup {t \in 0..(Len(over.lp.obs) - 1) : \A u \in 0..t : NanFree(u)})

\* C22: in log_prob every (group, time) pair with a measure not missing is
\* in exactly one bucket, whose measures are the pair's measures not
\* missing, and no other pair is in any bucket and none is written twice;
\* the run of timesteps without NaN from timestep 0 is one range over all
\* groups, the other timesteps without NaN are one list over all groups,
\* and the remaining pairs are grouped by (timestep, measures not missing).
C22_Partition ==
  over.lp.called /\ over.lp.err = "none" =>
    LET buckets == over.lp.buckets
        N == 1..Len(buckets)
        later == {t \in 0..(Len(over.lp.obs) - 1) : NanFree(t) /\ t > LeadingRun}
    IN  /\ \A p \in LpPairs :
             IF ValidAt(p[1], p[2]) = {} THEN BucketsAt(p[1], p[2]) = {}
             ELSE \E n \in N : /\ BucketsAt(p[1], p[2]) = {n}
                               /\ SeqSet(buckets[n].measure_idx) = ValidAt(p[1], p[2])
        /\ \A n \in N : NoRepeat(buckets[n].group_idx) /\ NoRepeat(buckets[n].time_idx)
        /\ \A t \in 0..LeadingRun :
             \E n \in N : /\ buckets[n].sliced
                          /\ buckets[n].time_idx = [k \in 1..(LeadingRun + 1) |-> k - 1]
                          /\ buckets[n].group_idx = AllGroups
        /\ \A t \in later :
             \E n \in N : /\ buckets[n].sliced
                          /\ SeqSet(buckets[n].time_idx) = later
                          /\ buckets[n].group_idx = AllGroups
        /\ \A n \in N : ~buckets[n].sliced =>
             /\ Len(buckets[n].time_idx) = 1
             /\ ~NanFree(buckets[n].time_idx[1])
             /\ \A k \in N : (~buckets[k].sliced /\ buckets[k].time_idx = buckets[n].time_idx
                               /\ buckets[k].measure_idx = buckets[n].measure_idx) => k = n

\* log_prob has returned for an obs of three timesteps whose first two have
\* no missing entry and whose third has a group with every measure missing
\* and a group with a measure not missing.
C22_Witness ==
  /\ over.lp.called /\ over.lp.err = "none"
  /\ Len(over.lp.obs) = 3
  /\ LeadingRun = 1
  /\ \E g \in Groups : ValidAt(g, 2) = {}
  /\ \E g \in Groups : ValidAt(g, 2) # {} /\ BucketsAt(g, 2) # {}

\* C21: to_dataframe with a TimeSeriesDataset or a dict and a type that is
\* neither 'predictions' nor 'components' raises the error of the type and
\* returns nothing; with either of the two types it does not raise it.
C21_TypeChecked ==
  /\ over.df.called
  /\ over.df.dataset \in {"TimeSeriesDataset", "dict", "dict with named_tensors"}
  /\ over.df.group_colname = "group" /\ over.df.time_colname = "time"
  => IF over.df.type \in {"predictions", "components"}
     THEN over.df.err # "ValueError: type"
     ELSE over.df.err = "ValueError: type" /\ IsNone(over.df.out)

\* to_dataframe has raised for a dict and the type 'residuals'.
C21_Witness ==
  /\ over.df.called
  /\ over.df.dataset = "dict"
  /\ over.df.group_colname = "group" /\ over.df.time_colname = "time"
  /\ over.df.type = "residuals"
  /\ over.df.err = "ValueError: type"

\* Every belief of the sequence has a measurement attached.
AllMeasured == \A t \in Times(over) : ~IsNone(over.state_beliefs[t].H)

\* The belief b holds for every group g the mean, covariance, H and R of
\* the belief of the sequence at timestep time_idx[g].
TakenAt(b, time_idx) ==
  /\ b.family = over.family
  /\ \A g \in Groups :
       LET at == over.state_beliefs[time_idx[g] + 1]
       IN  /\ b.means[g] = at.means[g]
           /\ b.covs[g] = at.covs[g]
           /\ ~IsNone(b.H) /\ Get(b.H)[g] = Get(at.H)[g]
           /\ ~IsNone(b.R) /\ Get(b.R)[g] = Get(at.R)[g]

\* C27: state_belief_for_time(time_idx) raises when the length of time_idx
\* is not the group count; otherwise, on a sequence of measured beliefs
\* and timesteps of the sequence, it returns a belief of the family of the
\* sequence holding for each group the mean, covariance, H and R of the
\* belief at timestep time_idx[g]; last_update() returns the same for
\* time_idx = last_update_idx.
C27_RestoredAt ==
  /\ over.at.op = "state_belief_for_time" /\ Len(over.at.time_idx) # over.num_groups =>
       over.at.err = "ValueError" /\ IsNone(over.at.ret)
  /\ /\ over.at.op = "state_belief_for_time"
     /\ Len(over.at.time_idx) = over.num_groups
     /\ AllMeasured
     /\ \A g \in Groups : InRange(over, over.at.time_idx[g])
     => over.at.err = "none" /\ ~IsNone(over.at.ret)
  /\ over.at.op = "last_update" /\ AllMeasured => over.at.err = "none"
  /\ over.at.op = "last_update" => over.at.time_idx = over.last_update_idx
  /\ over.at.op # "none" /\ over.at.err = "none" =>
       ~IsNone(over.at.ret) /\ TakenAt(Get(over.at.ret), over.at.time_idx)

\* state_belief_for_time has returned a belief for timesteps that differ
\* between two groups, the first group's a later timestep at which its
\* mean is not that of timestep 0.
C27_Witness ==
  /\ over.at.op = "state_belief_for_time" /\ over.at.err = "none"
  /\ over.at.time_idx[1] # over.at.time_idx[NumGroups]
  /\ over.at.time_idx[1] # 0
  /\ over.state_beliefs[over.at.time_idx[1] + 1].means[1] # over.state_beliefs[1].means[1]

\* C28: state_belief_for_time and last_update on a sequence whose beliefs
\* have no measurement attached return a belief with the selected means
\* and covariances and no H and R, and do not raise UnmeasuredError.
C28_UnmeasuredRestored ==
  /\ over.at.op # "none"
  /\ \A t \in Times(over) : IsNone(over.state_beliefs[t].H)
  /\ Len(over.at.time_idx) = over.num_groups
  /\ \A g \in Groups : InRange(over, over.at.time_idx[g])
  => /\ over.at.err = "none"
     /\ ~IsNone(over.at.ret)
     /\ IsNone(Get(over.at.ret).H) /\ IsNone(Get(over.at.ret).R)
     /\ \A g \in Groups :
          /\ Get(over.at.ret).means[g] = over.state_beliefs[over.at.time_idx[g] + 1].means[g]
          /\ Get(over.at.ret).covs[g] = over.state_beliefs[over.at.time_idx[g] + 1].covs[g]

\* An update call on a belief without a measurement attached.
Unmeasured == call.op = "update" /\ IsNone(call.pre.H)

\* Some group of the observation of the call has a measure not missing.
SomeObserved == \E g \in Groups : ~AllMissing(g)

\* C23 as stated: update on a belief without a measurement raises
\* UnmeasuredError whenever some group has a measure not missing at the
\* selected timestep, and does not raise when every group is missing in
\* every measure or the time selector is past the horizon.
C23_AsStated ==
  Unmeasured =>
    /\ Within /\ SomeObserved => call.err = "UnmeasuredError"
    /\ Past \/ ~SomeObserved => call.err = "none"

\* C23: update on a belief without a measurement raises whenever some
\* group has a measure not missing at the selected timestep: the error is
\* UnmeasuredError, or, in the censored family with a NaN bound or a
\* degenerate interval at an active position, possibly the error of the
\* bounds, which are checked first; it does not raise UnmeasuredError when
\* every group is missing in every measure or the time selector is past the
\* horizon, and then returns unless the receiver's mean holds a NaN.
C23_Unmeasured ==
  Unmeasured =>
    /\ Within /\ SomeObserved =>
         /\ ~call.returned
         /\ call.err \in {"UnmeasuredError", "NanLower", "NanUpper", "LowerEqUpper"}
         /\ ~(ActiveNanBound \/ ActiveDegenerate) => call.err = "UnmeasuredError"
         /\ call.pre.family = "Gaussian" => call.err = "UnmeasuredError"
    /\ Past => call.returned /\ call.err = "none"
    /\ Within /\ ~SomeObserved =>
         /\ call.err \in {"none", "NanMean"}
         /\ call.err = "NanMean" <=> \E g \in Groups : IsNaN(call.pre.means[g])

\* An update on a belief without a measurement has raised UnmeasuredError
\* for an observation in which the last group is missing in every measure
\* and the first is not.
C23_Witness ==
  /\ Unmeasured
  /\ Within
  /\ AllMissing(NumGroups) /\ ~AllMissing(1)
  /\ call.err = "UnmeasuredError"

\* C24: predict and update leave their receiver as it was, whether they
\* return or raise: its means, covariances, last_measured and attached H
\* and R are those before the call; and no tensor of the returned belief
\* is storage of the receiver.
C24_ReceiverKept ==
  call.op \in {"predict", "update"} =>
    /\ sb = call.pre
    /\ call.returned => call.shared = {}

\* An update has raised for an infinite observation after the groups of a
\* bucket were written into means_new and covs_new.
C24_Witness ==
  /\ Within
  /\ call.err = "InfObs"
  /\ \E g \in Groups : GroupAnyNan(Get(call.args.obs), g) /\ ~AllMissing(g)
  /\ ~IsNone(call.pre.H)
  /\ sb = call.pre

\* C25: in the driver loop (predict on the current belief,
\* compute_measurement without overwrite on the prediction, update(obs,
\* time=t), then on from the returned belief) compute_measurement never
\* raises the re-compute error and update never raises UnmeasuredError,
\* whatever the number of passes and the time extent of obs; the prediction
\* of every pass carries the measurement of that pass.
C25_DriverMeasures ==
  /\ over.err \notin {"RecomputeError", "UnmeasuredError"}
  /\ over.mode = "predictions" =>
       \A t \in Times(over) : over.state_beliefs[t].H = Some(HRUnit.H)

C25_Witness ==
  /\ over.pc = "loop"
  /\ over.ext < Len(over.state_beliefs) - 1
  /\ \E g \in Groups : over.measured[1] = {g}
  /\ ~IsNone(sb.H)

\* C26: simulate_trajectories with compute_measurements=True never raises
\* the re-compute error, and every simulated belief it has collected carries
\* the measurement of the design, whether or not the belief it was called on
\* had H and R attached.
C26_MeasuredOnce ==
  sim.compute_measurements =>
    /\ sim.pc = "raised" => Get(sim.err).kind # "RecomputeError"
    /\ \A k \in 1..Len(sim.states) : sim.states[k].H = Some(HRUnit.H)

\* The term the claim gives the entry m of an evaluation with arguments a.
ClaimedTerm(a, m) ==
  LET std == Sqrt(a.pred_cov[m])
      z == ZScore(a.pred_mean[m], a.obs[m], std)
  IN  IF IsClose(a.obs[m], BoundOr(a.lower, NegInf)[m]) THEN LoglikCensLo(z)
      ELSE IF IsClose(a.obs[m], BoundOr(a.upper, PosInf)[m]) THEN LoglikCensUp(z)
      ELSE LoglikUncens(z, std)

\* C29: the censored log-probability of a (group, time) pair gives every
\* valid dimension exactly one term, the lower-censored one when the
\* observation is at the lower bound (within the tolerance of isclose),
\* otherwise the upper-censored one when it is at the upper bound, otherwise
\* the uncensored density; the result is the sum of these terms over the
\* valid dimensions and no others; and without bounds every finite
\* observation gets the uncensored term.
C29_OneTermPerDim ==
  call.op = "_log_prob_with_subsetting" =>
    LET a == call.args
        valid == {m \in Measures : ~IsNaN(a.obs[m])}
        r == Get(call.ret)
    IN  /\ DOMAIN r.loglik = valid
        /\ \A m \in valid : r.loglik[m] = ClaimedTerm(a, m)
        /\ \A v \in DOMAIN r.out :
             r.out[v] = Cardinality({m \in valid : ClaimedTerm(a, m) = v})
        /\ \A m \in valid : \E v \in DOMAIN r.out : v = ClaimedTerm(a, m)
        /\ IsNone(a.lower) /\ IsNone(a.upper) =>
             \A m \in valid : IsFinite(a.obs[m]) => r.loglik[m].term = "uncensored"

C29_Witness ==
  /\ call.op = "_log_prob_with_subsetting"
  /\ call.args.lower = Some([m \in Measures |-> Num(1)])
  /\ call.args.upper = Some([m \in Measures |-> Num(1)])
  /\ call.args.obs[1] = <<1000001, 1000000>>
  /\ call.args.obs[NumMeasures] = Num(3)
  /\ Get(call.ret).loglik[1].term = "lower"
  /\ Get(call.ret).loglik[NumMeasures].term = "uncensored"
====
